---------------------------- MODULE Spec2Model ----------------------------
(***************************************************************************)
(* vue-i18n-convert: text-to-key resolution (utils.js), the markup         *)
(* rewriter (templateParser.js), the syntax-tree rewriter (scriptParser.js)*)
(* and the host that composes them (src/parser.js).                        *)
(*                                                                         *)
(* A JavaScript string is a sequence of characters; a character is a       *)
(* one-element TLA+ string for ASCII, and a name for the non-ASCII ones:   *)
(*   "Zh1", "Zh2", "Zh3"  three ideographs of U+4E00..U+9FA5               *)
(*   "FwColon"            the full-width colon U+FF1A                      *)
(*   "Backtick"           the grave accent U+0060                          *)
(***************************************************************************)
EXTENDS Integers, Sequences, FiniteSets, TLC

VARIABLES
  i18nMap,         \* utils.js: let i18nMap = new Map()
  unmatchedTexts,  \* utils.js: let unmatchedTexts = new Set() (insertion ordered)
  skipUnmatched,   \* utils.js: let skipUnmatched
  matchPath,       \* utils.js: let matchPath (NoPath for null)
  zhData,          \* the dictionary object the loader would read
  input,           \* the argument of the last rewriter / resolution call
  output,          \* what that call returned
  before,          \* unmatchedTexts when that call started
  last,            \* the name of the last operation
  again,           \* TRUE when the last rewriter call ran on its own output
  pc,              \* convertVueFile: position of the run
  file,            \* convertVueFile: the .vue document being converted
  disk,            \* convertVueFile: what has been written back
  report,          \* nomatch.txt: the blocks appended so far
  runs             \* number of convertVueFile runs started

vars == <<i18nMap, unmatchedTexts, skipUnmatched, matchPath, zhData, input,
          output, before, last, again, pc, file, disk, report, runs>>

-----------------------------------------------------------------------------
(* Characters and JavaScript string primitives                             *)

ChineseChars == {"Zh1", "Zh2", "Zh3"}
Whitespace == {" ", "\n", "\t", "\r"}
Digits == {"0", "1", "2", "3", "4", "5", "6", "7", "8", "9"}
Letters == {"a", "b", "c", "d", "e", "f", "g", "h", "i", "j", "k", "l", "m",
            "n", "o", "p", "q", "r", "s", "t", "u", "v", "w", "x", "y", "z",
            "A", "B", "C", "D", "E", "F", "G", "H", "I", "J", "K", "L", "M",
            "N", "O", "P", "Q", "R", "S", "T", "U", "V", "W", "X", "Y", "Z"}
Quotes == {"\"", "'"}

\* String.prototype.startsWith
StartsWith(s, p) == Len(p) <= Len(s) /\ SubSeq(s, 1, Len(p)) = p

\* String.prototype.startsWith(p, position) with a 1-based position
StartsWithAt(s, p, i) ==
  i + Len(p) - 1 <= Len(s) /\ SubSeq(s, i, i + Len(p) - 1) = p

\* String.prototype.endsWith
EndsWith(s, p) ==
  Len(p) <= Len(s) /\ SubSeq(s, Len(s) - Len(p) + 1, Len(s)) = p

\* String.prototype.includes
Includes(s, p) == \E i \in 1..(Len(s) + 1) : StartsWithAt(s, p, i)

\* The least index of a set of indexes, 0 for the empty set: the place of
\* the first match
MinOf(set) == IF set = {} THEN 0 ELSE CHOOSE k \in set : \A j \in set : k <= j

\* String.prototype.indexOf(p, from), 1-based; 0 when absent (-1 in JavaScript)
IndexOfFrom(s, p, from) ==
  MinOf({i \in from..(Len(s) + 1) : StartsWithAt(s, p, i)})

\* String.prototype.trim
Trim(s) ==
  LET keep == {i \in 1..Len(s) : s[i] \notin Whitespace}
  IN IF keep = {} THEN <<>>
     ELSE SubSeq(s, CHOOSE i \in keep : \A j \in keep : i <= j,
                    CHOOSE i \in keep : \A j \in keep : i >= j)

\* The end of the longest run of characters of class cls that starts at i
\* (i - 1 when s[i] is not in cls): what a greedy  [cls]*  consumes.
RunEnd(s, i, cls) ==
  LET stops == {k \in i..Len(s) : s[k] \notin cls}
  IN IF stops # {} THEN (CHOOSE k \in stops : \A j \in stops : k <= j) - 1
     ELSE IF i <= Len(s) THEN Len(s) ELSE i - 1

\* As RunEnd, for the complement of a class: what  [^cls]*  consumes.
RunEndNot(s, i, cls) ==
  LET stops == {k \in i..Len(s) : s[k] \in cls}
  IN IF stops # {} THEN (CHOOSE k \in stops : \A j \in stops : k <= j) - 1
     ELSE IF i <= Len(s) THEN Len(s) ELSE i - 1

\* Array.prototype.join('') of an array of strings
RECURSIVE Join(_)
Join(parts) == IF parts = <<>> THEN <<>> ELSE Head(parts) \o Join(Tail(parts))

\* Decimal digits of a natural number (template-literal interpolation of a number)
RECURSIVE NatToStr(_)
NatToStr(n) ==
  LET d == <<"0", "1", "2", "3", "4", "5", "6", "7", "8", "9">>
  IN IF n < 10 THEN <<d[n + 1]>> ELSE NatToStr(n \div 10) \o <<d[(n % 10) + 1]>>

\* parseInt of a string of decimal digits
RECURSIVE ParseInt(_)
ParseInt(s) ==
  IF s = <<>> THEN 0
  ELSE ParseInt(SubSeq(s, 1, Len(s) - 1)) * 10
       + (CHOOSE n \in 0..9 : NatToStr(n) = <<s[Len(s)]>>)

-----------------------------------------------------------------------------
(* utils.js                                                                *)

\* isOnlyChinese that asks for nothing but Chinese characters
isOnlyChinese_Only(str) ==
  str # <<>> /\ \A i \in 1..Len(str) : str[i] \in ChineseChars

\* isOnlyChinese(str)
isOnlyChinese(str) ==
  LET Test(trimmed) ==
        IF Len(trimmed) = 0 THEN FALSE
        ELSE IF \A i \in 1..Len(trimmed) : trimmed[i] \in Digits THEN FALSE
        ELSE \E i \in 1..Len(trimmed) : trimmed[i] \in ChineseChars
  IN IF str = <<>> THEN FALSE ELSE Test(Trim(str))

\* cleanString(str)
cleanString(str) == IF str = <<>> THEN <<>> ELSE Trim(str)

\* detectColonSuffix testing for the full-width colon only
detectColonSuffix_FullWidthOnly(str) ==
  IF str # <<>> /\ EndsWith(str, <<"FwColon">>)
  THEN [hasColonSuffix |-> TRUE, colonChar |-> <<"FwColon">>,
        textWithoutColon |-> SubSeq(str, 1, Len(str) - 1)]
  ELSE [hasColonSuffix |-> FALSE, colonChar |-> <<>>, textWithoutColon |-> str]

\* detectColonSuffix(str)
detectColonSuffix(str) ==
  IF str = <<>>
  THEN [hasColonSuffix |-> FALSE, colonChar |-> <<>>, textWithoutColon |-> str]
  ELSE IF EndsWith(str, <<"FwColon">>)
  THEN [hasColonSuffix |-> TRUE, colonChar |-> <<"FwColon">>,
        textWithoutColon |-> SubSeq(str, 1, Len(str) - 1)]
  ELSE IF EndsWith(str, <<":">>)
  THEN [hasColonSuffix |-> TRUE, colonChar |-> <<":">>,
        textWithoutColon |-> SubSeq(str, 1, Len(str) - 1)]
  ELSE [hasColonSuffix |-> FALSE, colonChar |-> <<>>, textWithoutColon |-> str]

\* The match of /\$\{[^}]+\}/ at position i: the index of its closing brace, or 0.
VarMatchEnd(s, i) ==
  LET Closed(e) == IF e >= i + 2 /\ e + 1 <= Len(s) THEN e + 1 ELSE 0
  IN IF ~StartsWithAt(s, <<"$", "{">>, i) THEN 0
     ELSE Closed(RunEndNot(s, i + 2, {"}"}))

\* Where the next match of /\$\{[^}]+\}/g starts at or after i, 0 when none
NextVar(s, i) == MinOf({k \in i..Len(s) : VarMatchEnd(s, k) > 0})

\* template.replace(/\$\{[^}]+\}/g, '') from position i on
RECURSIVE StripVars(_, _)
StripVars(s, i) ==
  LET Cut(k) ==
        IF k = 0 THEN SubSeq(s, i, Len(s))
        ELSE SubSeq(s, i, k - 1) \o StripVars(s, VarMatchEnd(s, k) + 1)
  IN Cut(NextVar(s, i))

\* template.replace(/\$\{([^}]+)\}/g, ...) from position i on, n parameters so far
RECURSIVE ReplaceVars(_, _, _)
ReplaceVars(s, i, n) ==
  LET Emit(k, e, paramName, rest) ==
        [text |-> SubSeq(s, i, k - 1) \o <<"{">> \o paramName \o <<"}">>
                  \o rest.text,
         params |-> <<[name |-> paramName,
                       expr |-> Trim(SubSeq(s, k + 2, e - 1))]>>
                    \o rest.params]
      Match(k, e) ==
        Emit(k, e, <<"p", "a", "r", "a", "m">> \o NatToStr(n + 1),
             ReplaceVars(s, e + 1, n + 1))
      From(k) ==
        IF k = 0 THEN [text |-> SubSeq(s, i, Len(s)), params |-> <<>>]
        ELSE Match(k, VarMatchEnd(s, k))
  IN From(NextVar(s, i))

\* extractTemplateVars(template)
extractTemplateVars(template) ==
  LET Result(r) ==
        [text |-> r.text, params |-> r.params,
         hasChinese |-> isOnlyChinese(StripVars(template, 1))]
  IN Result(ReplaceVars(template, 1, 0))


-----------------------------------------------------------------------------
(* utils.js: the dictionary index                                          *)
(*                                                                         *)
(* A dictionary object is the sequence of its own enumerable properties in *)
(* for-in order; a property is [key, kind, text, children] with kind       *)
(* "string" (text is the value), "object" (children is the value) or       *)
(* "other" (a number, an array, null).  The Map is the sequence of its     *)
(* entries [text, isArray, keys]: a lone key k is keys = <<k>> with        *)
(* isArray = FALSE, an array of keys has isArray = TRUE.                   *)

\* The index of text in the Map, 0 when absent (Map.prototype.has / get)
MapIndex(m, text) == MinOf({i \in 1..Len(m) : m[i].text = text})

\* One string leaf of flattenI18nObject: lines 348-366
FlattenLeaf(result, value, fullKey) ==
  LET \* if (existing): an array, or a non-empty string
      Set(t, i) ==
        IF i > 0 /\ (result[i].isArray \/ result[i].keys[1] # <<>>)
        THEN [result EXCEPT ![i] = [text |-> t, isArray |-> TRUE,
                                    keys |-> Append(result[i].keys, fullKey)]]
        ELSE IF i > 0
        THEN [result EXCEPT ![i] = [text |-> t, isArray |-> FALSE,
                                    keys |-> <<fullKey>>]]
        ELSE Append(result, [text |-> t, isArray |-> FALSE,
                             keys |-> <<fullKey>>])
      Get(t) == Set(t, MapIndex(result, t))
  IN Get(detectColonSuffix(value).textWithoutColon)

\* flattenI18nObject(obj, prefix, result)
RECURSIVE flattenI18nObject(_, _, _)
flattenI18nObject(obj, prefix, result) ==
  IF obj = <<>> THEN result
  ELSE LET p == Head(obj)
           fullKey == IF prefix # <<>> THEN prefix \o <<".">> \o p.key ELSE p.key
           r == IF p.kind = "object"
                THEN flattenI18nObject(p.children, fullKey, result)
                ELSE IF p.kind = "string"
                THEN FlattenLeaf(result, p.text, fullKey)
                ELSE result
       IN flattenI18nObject(Tail(obj), prefix, r)

\* matchPath = null
NoPath == <<>>

\* setConvertOptions(options): the values the two globals take
OptSkip(options) == options.skipUnmatched
OptPath(options) == IF options.matchPath # <<>> THEN options.matchPath ELSE NoPath

\* loadI18nMap(zhFilePath): the Map it leaves in i18nMap.  zh is the file:
\* [readable, data]; reading or requiring it may throw (lines 449-453).
LoadedMap(zh) ==
  IF ~zh.readable THEN <<>>
  ELSE LET d == zh.data
           hasDefault == {i \in 1..Len(d) :
                            d[i].key = <<"d", "e", "f", "a", "u", "l", "t">>
                            /\ d[i].kind = "object"}
           data == IF hasDefault = {} THEN d
                   ELSE d[CHOOSE i \in hasDefault : TRUE].children
       IN flattenI18nObject(data, <<>>, <<>>)

\* Set.prototype.add that forgets what the set held
SetAdd_Forget(set, x) == <<x>>

\* Set.prototype.add on the insertion-ordered set
SetAdd(set, x) ==
  IF \E i \in 1..Len(set) : set[i] = x THEN set ELSE Append(set, x)

\* isKeyPathMatched without the prefix test: every key passes
isKeyPathMatched_NoScope(key) == TRUE

\* isKeyPathMatched(key)
isKeyPathMatched(key) ==
  IF matchPath = NoPath THEN TRUE
  ELSE IF StartsWith(key, <<"c", "o", "m", "m", "o", "n", ".">>) THEN TRUE
  ELSE IF StartsWith(key, matchPath \o <<".">>) THEN TRUE
  ELSE FALSE

\* Array.prototype.find(k => k.startsWith(prefix)): the index, 0 when none
FindPrefixed(keys, prefix) ==
  MinOf({i \in 1..Len(keys) : StartsWith(keys[i], prefix)})

\* The not-found exit returning the text even when skipUnmatched is set
Unmatched_NeverNull(chineseText, unm) ==
  [isNull |-> FALSE, key |-> chineseText, unm |-> SetAdd(unm, chineseText)]

\* The not-found exit of getKeyForChinese: record the text, return null or it
Unmatched(chineseText, unm) ==
  [isNull |-> skipUnmatched,
   key |-> IF skipUnmatched THEN <<>> ELSE chineseText,
   unm |-> SetAdd(unm, chineseText)]

\* A key found in the Map
Matched(key, unm) == [isNull |-> FALSE, key |-> key, unm |-> unm]

\* getKeyForChinese with the two priorities swapped: matchPath before common
getKeyForChinese_ScopeFirst(chineseText, unm) ==
  LET Lone(key) ==
        IF ~isKeyPathMatched(key) THEN Unmatched(chineseText, unm)
        ELSE Matched(key, unm)
      Pick(keyOrKeys, c, m) ==
        IF m > 0 THEN Matched(keyOrKeys[m], unm)
        ELSE IF c > 0 THEN Matched(keyOrKeys[c], unm)
        ELSE Lone(keyOrKeys[1])
      Found(entry) ==
        IF ~entry.isArray THEN Lone(entry.keys[1])
        ELSE Pick(entry.keys,
                  FindPrefixed(entry.keys, <<"c", "o", "m", "m", "o", "n", ".">>),
                  IF matchPath # NoPath
                  THEN FindPrefixed(entry.keys, matchPath \o <<".">>) ELSE 0)
      Get(i) == IF i = 0 THEN Unmatched(chineseText, unm) ELSE Found(i18nMap[i])
  IN Get(MapIndex(i18nMap, chineseText))

\* getKeyForChinese(chineseText) with unmatchedTexts = unm: the value returned
\* (isNull for null) and unmatchedTexts afterwards
getKeyForChinese(chineseText, unm) ==
  LET \* a lone key, and keyOrKeys[0] of an array: lines 527-531, 565-576
      Lone(key) ==
        IF ~isKeyPathMatched(key) THEN Unmatched(chineseText, unm)
        ELSE Matched(key, unm)
      \* an array of keys: common first, then matchPath, then the first key
      Pick(keyOrKeys, c, m) ==
        IF c > 0 THEN Matched(keyOrKeys[c], unm)
        ELSE IF m > 0 THEN Matched(keyOrKeys[m], unm)
        ELSE Lone(keyOrKeys[1])
      Found(entry) ==
        IF ~entry.isArray THEN Lone(entry.keys[1])
        ELSE Pick(entry.keys,
                  FindPrefixed(entry.keys, <<"c", "o", "m", "m", "o", "n", ".">>),
                  IF matchPath # NoPath
                  THEN FindPrefixed(entry.keys, matchPath \o <<".">>) ELSE 0)
      Get(i) == IF i = 0 THEN Unmatched(chineseText, unm) ELSE Found(i18nMap[i])
  IN Get(MapIndex(i18nMap, chineseText))

\* The escaping of one report entry (saveUnmatchedKeys, lines 618-623)
RECURSIVE Escape(_)
Escape(text) ==
  IF text = <<>> THEN <<>>
  ELSE LET c == Head(text)
           e == IF c = "\\" THEN <<"\\", "\\">>
                ELSE IF c = "\n" THEN <<"\\", "n">>
                ELSE IF c = "\r" THEN <<"\\", "r">>
                ELSE IF c = "\t" THEN <<"\\", "t">>
                ELSE <<c>>
       IN e \o Escape(Tail(text))

\* saveUnmatchedKeys(outputDir): nomatch.txt afterwards
SavedReport(rep, unm) ==
  IF Len(unm) = 0 THEN rep
  ELSE Append(rep, [count |-> Len(unm),
                    lines |-> [i \in 1..Len(unm) |->
                                 <<"'">> \o Escape(unm[i]) \o <<"'">>]])

-----------------------------------------------------------------------------
(* templateParser.js                                                       *)
(*                                                                         *)
(* str.replace(/re/g, fn): the string is scanned from the left; where the  *)
(* pattern matches, fn's result is emitted and the scan goes on behind the *)
(* match; elsewhere the character is copied.  Every pattern of this file   *)
(* has one way to match at a position, so a match at a position is a      *)
(* record whose field end is the last index of the match, 0 for no match.  *)
(* Resolution calls made by fn change unmatchedTexts, threaded as unm.     *)

NoMatch == [end |-> 0]

\* $t('key')
TCall(key) == <<"$", "t", "(", "'">> \o key \o <<"'", ")">>

\* convertToI18n(text, format): null, or the call text; and unmatchedTexts
convertToI18n(text, format, unm) ==
  LET Emit(c, k, call) ==
        IF k.isNull THEN [isNull |-> TRUE, text |-> <<>>, unm |-> k.unm]
        ELSE IF c.hasColonSuffix
        THEN IF format = "template"
             THEN [isNull |-> FALSE, unm |-> k.unm,
                   text |-> <<"{", "{", " ">> \o call \o <<" ", "+", " ", "\"">>
                            \o c.colonChar \o <<"\"", " ", "}", "}">>]
             ELSE [isNull |-> FALSE, unm |-> k.unm,
                   text |-> call \o <<" ", "+", " ", "'">> \o c.colonChar
                            \o <<"'">>]
        ELSE IF format = "template"
             THEN [isNull |-> FALSE, unm |-> k.unm,
                   text |-> <<"{", "{", " ">> \o call \o <<" ", "}", "}">>]
             ELSE [isNull |-> FALSE, unm |-> k.unm, text |-> call]
      Key(c, k) == Emit(c, k, TCall(k.key))
      Colon(c) ==
        Key(c, getKeyForChinese(IF c.hasColonSuffix THEN c.textWithoutColon
                                ELSE text, unm))
  IN Colon(detectColonSuffix(text))

\* The shared body of the callbacks that classify a piece of text and convert
\* it: cleanString, isOnlyChinese, convertToI18n; keep is what stays when the
\* text is not converted, pre and post wrap the converted text.
ConvertOr(raw, format, keep, pre, post, unm) ==
  LET Converted(c) ==
        IF c.isNull THEN [text |-> keep, unm |-> c.unm]
        ELSE [text |-> pre \o c.text \o post, unm |-> c.unm]
      Cleaned(cleaned) ==
        IF isOnlyChinese(cleaned)
        THEN Converted(convertToI18n(cleaned, format, unm))
        ELSE [text |-> keep, unm |-> unm]
  IN Cleaned(cleanString(raw))

\* params.map(p => p.name + ': ' + p.expr).join(', ')
RECURSIVE ParamsObj(_)
ParamsObj(params) ==
  IF params = <<>> THEN <<>>
  ELSE Head(params).name \o <<":", " ">> \o Head(params).expr
       \o (IF Len(params) > 1 THEN <<",", " ">> ELSE <<>>)
       \o ParamsObj(Tail(params))

\* The callbacks of passes 1.5 and 5: a template string with its variables
\* extracted becomes $t('key'[, { params }])[ + 'colon'] between pre and post
ConvertTemplateString(templateContent, keep, pre, post, unm) ==
  LET Emit(v, c, k) ==
        IF k.isNull THEN [text |-> keep, unm |-> k.unm]
        ELSE [text |-> pre
                       \o (IF Len(v.params) > 0
                           THEN <<"$", "t", "(", "'">> \o k.key
                                \o <<"'", ",", " ", "{", " ">>
                                \o ParamsObj(v.params) \o <<" ", "}", ")">>
                           ELSE TCall(k.key))
                       \o (IF c.hasColonSuffix
                           THEN <<" ", "+", " ", "'">> \o c.colonChar \o <<"'">>
                           ELSE <<>>)
                       \o post,
              unm |-> k.unm]
      Colon(v, cleaned, c) ==
        Emit(v, c, getKeyForChinese(IF c.hasColonSuffix THEN c.textWithoutColon
                                    ELSE cleaned, unm))
      Cleaned(v, cleaned) == Colon(v, cleaned, detectColonSuffix(cleaned))
      Vars(v) ==
        IF ~v.hasChinese THEN [text |-> keep, unm |-> unm]
        ELSE Cleaned(v, cleanString(v.text))
  IN Vars(extractTemplateVars(templateContent))

\* Pass 0: /<!--[\s\S]*?-->/g, each comment replaced by a numbered placeholder
CommentPlaceholder ==
  <<"_", "_", "_", "C", "O", "M", "M", "E", "N", "T", "_", "P", "L", "A", "C",
    "E", "H", "O", "L", "D", "E", "R", "_", "_", "_">>

MatchComment(s, i) ==
  LET Closed(j) == IF j = 0 THEN NoMatch ELSE [end |-> j + 2]
  IN IF ~StartsWithAt(s, <<"<", "!", "-", "-">>, i) THEN NoMatch
     ELSE Closed(IndexOfFrom(s, <<"-", "-", ">">>, i + 4))

RECURSIVE ProtectComments(_, _, _)
ProtectComments(s, i, comments) ==
  LET Emit(k, rest) ==
        [text |-> SubSeq(s, i, k - 1) \o CommentPlaceholder
                  \o NatToStr(Len(comments)) \o <<"_", "_", "_">> \o rest.text,
         comments |-> rest.comments]
      Match(k, m) ==
        IF m.end = 0 THEN [text |-> SubSeq(s, i, Len(s)), comments |-> comments]
        ELSE Emit(k, ProtectComments(s, m.end + 1,
                                     Append(comments, SubSeq(s, k, m.end))))
      From(k) == Match(k, IF k = 0 THEN NoMatch ELSE MatchComment(s, k))
  IN From(IndexOfFrom(s, <<"<", "!", "-", "-">>, i))

\* Pass 1: /\{\{\s*["']([^"']+)["']\s*\}\}/g
MatchInterpString(s, i) ==
  LET Test(a, b, c) ==
        IF /\ a <= Len(s) /\ s[a] \in Quotes
           /\ b >= a + 1
           /\ b + 1 <= Len(s) /\ s[b + 1] \in Quotes
           /\ StartsWithAt(s, <<"}", "}">>, c + 1)
        THEN [end |-> c + 2, from |-> a + 1, to |-> b]
        ELSE NoMatch
      Text(a, b) == Test(a, b, RunEnd(s, b + 2, Whitespace))
      Quote(a) == Text(a, RunEndNot(s, a + 1, Quotes))
  IN IF ~StartsWithAt(s, <<"{", "{">>, i) THEN NoMatch
     ELSE Quote(RunEnd(s, i + 2, Whitespace) + 1)

ReplInterpString(s, i, m, unm) ==
  LET match == SubSeq(s, i, m.end)
  IN IF Includes(match, <<"$", "t", "(">>) THEN [text |-> match, unm |-> unm]
     ELSE ConvertOr(SubSeq(s, m.from, m.to), "template", match, <<>>, <<>>, unm)

\* Pass 1.5: /\{\{\s*B([^B]*)B\s*\}\}/g with B the backtick
MatchInterpTemplate(s, i) ==
  LET Test(a, b, c) ==
        IF /\ a <= Len(s) /\ s[a] = "Backtick"
           /\ b + 1 <= Len(s) /\ s[b + 1] = "Backtick"
           /\ StartsWithAt(s, <<"}", "}">>, c + 1)
        THEN [end |-> c + 2, from |-> a + 1, to |-> b]
        ELSE NoMatch
      Text(a, b) == Test(a, b, RunEnd(s, b + 2, Whitespace))
      Quote(a) == Text(a, RunEndNot(s, a + 1, {"Backtick"}))
  IN IF ~StartsWithAt(s, <<"{", "{">>, i) THEN NoMatch
     ELSE Quote(RunEnd(s, i + 2, Whitespace) + 1)

ReplInterpTemplate(s, i, m, unm) ==
  LET match == SubSeq(s, i, m.end)
  IN IF Includes(match, <<"$", "t", "(">>) THEN [text |-> match, unm |-> unm]
     ELSE ConvertTemplateString(SubSeq(s, m.from, m.to), match,
                                <<"{", "{", " ">>, <<" ", "}", "}">>, unm)

\* Pass 2: />([^<]+)</g
MatchTextNode(s, i) ==
  LET Text(e) ==
        IF e >= i + 1 /\ e + 1 <= Len(s)
        THEN [end |-> e + 1, from |-> i + 1, to |-> e]
        ELSE NoMatch
  IN IF s[i] # ">" THEN NoMatch ELSE Text(RunEndNot(s, i + 1, {"<"}))

\* /\{\{[\s\S]*?\}\}/g inside a text node: the last index of the match at k
InterpEnd(text, k) ==
  LET Closed(j) == IF j = 0 THEN 0 ELSE j + 1
  IN IF ~StartsWithAt(text, <<"{", "{">>, k) THEN 0
     ELSE Closed(IndexOfFrom(text, <<"}", "}">>, k + 2))

\* interpolationRegex.exec(text) from lastIndex: where the next match starts
NextInterp(text, lastIndex) ==
  MinOf({k \in lastIndex..Len(text) : InterpEnd(text, k) > 0})

\* One literal segment of a mixed text node (lines 129-137, 145-153)
ConvertSegment(segment, unm) ==
  IF segment = <<>> THEN [text |-> <<>>, unm |-> unm]
  ELSE ConvertOr(segment, "template", segment, <<>>, <<>>, unm)

\* The while loop of lines 126-153: parts.join('') and unmatchedTexts
RECURSIVE SplitText(_, _, _)
SplitText(text, lastIndex, unm) ==
  LET Emit(k, e, b, rest) ==
        [text |-> b.text \o SubSeq(text, k, e) \o rest.text, unm |-> rest.unm]
      After(k, e, b) == Emit(k, e, b, SplitText(text, e + 1, b.unm))
      \* the literal segment before the match at k, or behind the last match
      Segment(k, e, b) == IF k = 0 THEN b ELSE After(k, e, b)
      Match(k, e) ==
        Segment(k, e,
                ConvertSegment(SubSeq(text, lastIndex,
                                      IF k = 0 THEN Len(text) ELSE k - 1), unm))
      From(k) == Match(k, IF k = 0 THEN 0 ELSE InterpEnd(text, k))
  IN From(NextInterp(text, lastIndex))

ReplTextNode(s, i, m, unm) ==
  LET match == SubSeq(s, i, m.end)
      text == SubSeq(s, m.from, m.to)
      Mixed(r) ==
        IF r.text # text
        THEN [text |-> <<">">> \o r.text \o <<"<">>, unm |-> r.unm]
        ELSE [text |-> match, unm |-> r.unm]
  IN IF Includes(text, <<"{", "{">>) /\ Includes(text, <<"}", "}">>)
     THEN Mixed(SplitText(text, 1, unm))
     ELSE ConvertOr(text, "template", match, <<">">>, <<"<">>, unm)

\* Pass 3: /\s+([a-zA-Z-:@]+)="([^"]+)"/g
AttrNameChars == Letters \cup {"-", ":", "@"}

MatchStaticAttr(s, i) ==
  LET Test(w, n, v) ==
        IF /\ n >= w + 1
           /\ StartsWithAt(s, <<"=", "\"">>, n + 1)
           /\ v >= n + 3
           /\ v + 1 <= Len(s)
        THEN [end |-> v + 1, nameFrom |-> w + 1, nameTo |-> n,
              from |-> n + 3, to |-> v]
        ELSE NoMatch
      Value(w, n) == Test(w, n, RunEndNot(s, n + 3, {"\""}))
      Name(w) == Value(w, RunEnd(s, w + 1, AttrNameChars))
  IN IF s[i] \notin Whitespace THEN NoMatch
     ELSE Name(RunEnd(s, i, Whitespace))

ReplStaticAttr(s, i, m, unm) ==
  LET match == SubSeq(s, i, m.end)
      attrName == SubSeq(s, m.nameFrom, m.nameTo)
  IN IF StartsWith(attrName, <<":">>) \/ StartsWith(attrName, <<"v", "-">>)
     THEN [text |-> match, unm |-> unm]
     ELSE ConvertOr(SubSeq(s, m.from, m.to), "attr", match,
                    <<" ", ":">> \o attrName \o <<"=", "\"">>, <<"\"">>, unm)

\* Pass 4: /:([a-zA-Z-]+)=["']([^"']*["']([^"']+)["'][^"']*)["']/g
MatchBoundString(s, i) ==
  LET Test(n, a, b, c) ==
        IF /\ n >= i + 1
           /\ n + 2 <= Len(s) /\ s[n + 1] = "=" /\ s[n + 2] \in Quotes
           /\ a + 1 <= Len(s) /\ s[a + 1] \in Quotes
           /\ b >= a + 2
           /\ b + 1 <= Len(s) /\ s[b + 1] \in Quotes
           /\ c + 1 <= Len(s) /\ s[c + 1] \in Quotes
        THEN [end |-> c + 1, nameFrom |-> i + 1, nameTo |-> n,
              fullFrom |-> n + 3, fullTo |-> c, from |-> a + 2, to |-> b]
        ELSE NoMatch
      After(n, a, b) == Test(n, a, b, RunEndNot(s, b + 2, Quotes))
      Inner(n, a) == After(n, a, RunEndNot(s, a + 2, Quotes))
      Before(n) == Inner(n, RunEndNot(s, n + 3, Quotes))
  IN IF s[i] # ":" THEN NoMatch
     ELSE Before(RunEnd(s, i + 1, Letters \cup {"-"}))

ReplBoundString(s, i, m, unm) ==
  LET match == SubSeq(s, i, m.end)
      attrName == SubSeq(s, m.nameFrom, m.nameTo)
      fullValue == SubSeq(s, m.fullFrom, m.fullTo)
      innerText == SubSeq(s, m.from, m.to)
  IN IF /\ isOnlyChinese(cleanString(innerText))
        /\ \/ Trim(fullValue) = <<"'">> \o innerText \o <<"'">>
           \/ Trim(fullValue) = <<"\"">> \o innerText \o <<"\"">>
     THEN ConvertOr(innerText, "attr", match,
                    <<":">> \o attrName \o <<"=", "\"">>, <<"\"">>, unm)
     ELSE [text |-> match, unm |-> unm]

\* Pass 5: /:([a-zA-Z-]+)=["']B([^B]*)B["']/g with B the backtick
MatchBoundTemplate(s, i) ==
  LET Test(n, b) ==
        IF /\ n >= i + 1
           /\ n + 3 <= Len(s) /\ s[n + 1] = "=" /\ s[n + 2] \in Quotes
           /\ s[n + 3] = "Backtick"
           /\ b + 2 <= Len(s) /\ s[b + 1] = "Backtick" /\ s[b + 2] \in Quotes
        THEN [end |-> b + 2, nameFrom |-> i + 1, nameTo |-> n,
              from |-> n + 4, to |-> b]
        ELSE NoMatch
      Name(n) == Test(n, RunEndNot(s, n + 4, {"Backtick"}))
  IN IF s[i] # ":" THEN NoMatch
     ELSE Name(RunEnd(s, i + 1, Letters \cup {"-"}))

ReplBoundTemplate(s, i, m, unm) ==
  LET attrName == SubSeq(s, m.nameFrom, m.nameTo)
  IN ConvertTemplateString(SubSeq(s, m.from, m.to), SubSeq(s, i, m.end),
                           <<":">> \o attrName \o <<"=", "\"">>, <<"\"">>, unm)

\* Pass 6: /___COMMENT_PLACEHOLDER___(\d+)___/g
MatchPlaceholder(s, i) ==
  LET Test(d) ==
        IF d >= i + Len(CommentPlaceholder)
           /\ StartsWithAt(s, <<"_", "_", "_">>, d + 1)
        THEN [end |-> d + 3, from |-> i + Len(CommentPlaceholder), to |-> d]
        ELSE NoMatch
  IN IF ~StartsWithAt(s, CommentPlaceholder, i) THEN NoMatch
     ELSE Test(RunEnd(s, i + Len(CommentPlaceholder), Digits))

ReplPlaceholder(s, i, m, unm, comments) ==
  LET Restore(index) ==
        [text |-> IF index < Len(comments) THEN comments[index + 1]
                  ELSE <<"u", "n", "d", "e", "f", "i", "n", "e", "d">>,
         unm |-> unm]
  IN Restore(ParseInt(SubSeq(s, m.from, m.to)))

\* The replace calls of convertTemplate in the order they run: passes 1,
\* 1.5, 2, 3, 4 and 5, then the restoring of the comments
Passes ==
  <<"interpString", "interpTemplate", "textNode", "staticAttr", "boundString",
    "boundTemplate", "placeholder">>

\* The pattern of a pass, tried at position i
MatchOf(pass, s, i) ==
  CASE pass = "interpString" -> MatchInterpString(s, i)
    [] pass = "interpTemplate" -> MatchInterpTemplate(s, i)
    [] pass = "textNode" -> MatchTextNode(s, i)
    [] pass = "staticAttr" -> MatchStaticAttr(s, i)
    [] pass = "boundString" -> MatchBoundString(s, i)
    [] pass = "boundTemplate" -> MatchBoundTemplate(s, i)
    [] pass = "placeholder" -> MatchPlaceholder(s, i)

\* The callback of a pass, for the match m at position i
ReplOf(pass, s, i, m, unm, comments) ==
  CASE pass = "interpString" -> ReplInterpString(s, i, m, unm)
    [] pass = "interpTemplate" -> ReplInterpTemplate(s, i, m, unm)
    [] pass = "textNode" -> ReplTextNode(s, i, m, unm)
    [] pass = "staticAttr" -> ReplStaticAttr(s, i, m, unm)
    [] pass = "boundString" -> ReplBoundString(s, i, m, unm)
    [] pass = "boundTemplate" -> ReplBoundTemplate(s, i, m, unm)
    [] pass = "placeholder" -> ReplPlaceholder(s, i, m, unm, comments)

\* s.replace(/re/g, fn) from position i on, for the pattern and the callback
\* of a pass: the text and unmatchedTexts afterwards
RECURSIVE ReplaceAll(_, _, _, _, _)
ReplaceAll(s, i, unm, pass, comments) ==
  LET Emit(k, r, rest) ==
        [text |-> SubSeq(s, i, k - 1) \o r.text \o rest.text, unm |-> rest.unm]
      After(k, m, r) ==
        Emit(k, r, ReplaceAll(s, m.end + 1, r.unm, pass, comments))
      Match(k, m) == After(k, m, ReplOf(pass, s, k, m, unm, comments))
      From(k) ==
        IF k = 0 THEN [text |-> SubSeq(s, i, Len(s)), unm |-> unm]
        ELSE Match(k, MatchOf(pass, s, k))
  IN From(MinOf({k \in i..Len(s) : MatchOf(pass, s, k).end > 0}))

\* convertTemplate(templateContent) with unmatchedTexts = unm: the markup
\* returned and unmatchedTexts afterwards
convertTemplate(templateContent, unm) ==
  LET RECURSIVE Run(_, _, _)
      Run(n, r, comments) ==
        IF n > Len(Passes) THEN r
        ELSE Run(n + 1, ReplaceAll(r.text, 1, r.unm, Passes[n], comments),
                 comments)
      Protected(p0) == Run(1, [text |-> p0.text, unm |-> unm], p0.comments)
  IN IF templateContent = <<>> THEN [text |-> <<>>, unm |-> unm]
     ELSE Protected(ProtectComments(templateContent, 1, <<>>))

-----------------------------------------------------------------------------
(* scriptParser.js: the syntax tree                                        *)
(*                                                                         *)
(* A node is [type, text, style, quasis, kids]: text is the value of a     *)
(* literal, the name of an identifier or the operator of a binary          *)
(* expression; kids are the child nodes in traversal order (callee before  *)
(* arguments, key before value, left before right, the expressions of a    *)
(* template literal); quasis are the static segments of a template literal *)
(* as [raw, cooked]; style is what the source text of the node adds to the *)
(* tree: the quote of a string literal, "multi" for an object printed one  *)
(* property a line.  The parser builds StringLiteral and ObjectProperty;   *)
(* the builders b.literal and b.property build Literal and Property.       *)

Nd(type, text, style, quasis, kids) ==
  [type |-> type, text |-> text, style |-> style, quasis |-> quasis,
   kids |-> kids]

identifier(name) == Nd("Identifier", name, "", <<>>, <<>>)
thisExpression == Nd("ThisExpression", <<>>, "", <<>>, <<>>)
numericLiteral(digits) == Nd("NumericLiteral", digits, "", <<>>, <<>>)
stringLiteral(value, quote) == Nd("StringLiteral", value, quote, <<>>, <<>>)
literal(value) == Nd("Literal", value, "\"", <<>>, <<>>)
templateLiteral(quasis, expressions) ==
  Nd("TemplateLiteral", <<>>, "", quasis, expressions)
binaryExpression(operator, left, right) ==
  Nd("BinaryExpression", operator, "", <<>>, <<left, right>>)
callExpression(callee, arguments) ==
  Nd("CallExpression", <<>>, "", <<>>, <<callee>> \o arguments)
memberExpression(object, prop) ==
  Nd("MemberExpression", <<>>, "", <<>>, <<object, prop>>)
objectExpression(properties) == Nd("ObjectExpression", <<>>, "multi", <<>>, properties)
property(key, value) == Nd("Property", <<>>, "", <<>>, <<key, value>>)

\* A static segment of a template literal without escape sequences
Quasi(chars) == [raw |-> chars, cooked |-> chars]

\* typeof node.value === 'string' for a node of a Literal type
IsStringNode(n) == n.type \in {"Literal", "StringLiteral"}

\* node.name
NameOf(n) == IF n.type = "Identifier" THEN n.text ELSE <<"undefined">>

\* A string between double quotes, as the printer writes a new literal
RECURSIVE QuoteDouble(_)
QuoteDouble(value) ==
  IF value = <<>> THEN <<>>
  ELSE LET c == Head(value)
           e == IF c = "\\" THEN <<"\\", "\\">>
                ELSE IF c = "\"" THEN <<"\\", "\"">>
                ELSE IF c = "\n" THEN <<"\\", "n">>
                ELSE <<c>>
       IN e \o QuoteDouble(Tail(value))

\* recast.print(node).code: a node the rewriter left alone prints as its
\* source, a node it built prints in the printer's own style
RECURSIVE PrintNode(_)
PrintNode(n) ==
  LET kid(i) == PrintNode(n.kids[i])
      RECURSIVE List(_, _)
      List(i, sep) ==
        IF i > Len(n.kids) THEN <<>>
        ELSE kid(i) \o (IF i < Len(n.kids) THEN sep ELSE <<>>) \o List(i + 1, sep)
      RECURSIVE Quasis(_)
      Quasis(i) ==
        IF i > Len(n.quasis) THEN <<>>
        ELSE n.quasis[i].raw
             \o (IF i <= Len(n.kids) THEN <<"$", "{">> \o kid(i) \o <<"}">>
                 ELSE <<>>)
             \o Quasis(i + 1)
  IN CASE n.type = "Identifier" -> n.text
       [] n.type = "ThisExpression" -> <<"t", "h", "i", "s">>
       [] n.type = "NumericLiteral" -> n.text
       [] n.type = "StringLiteral" -> <<n.style>> \o n.text \o <<n.style>>
       [] n.type = "Literal" -> <<"\"">> \o QuoteDouble(n.text) \o <<"\"">>
       [] n.type = "TemplateLiteral" ->
            <<"Backtick">> \o Quasis(1) \o <<"Backtick">>
       [] n.type = "BinaryExpression" ->
            kid(1) \o <<" ">> \o n.text \o <<" ">>
            \o (IF n.kids[2].type = "BinaryExpression"
                THEN <<"(">> \o kid(2) \o <<")">> ELSE kid(2))
       [] n.type = "CallExpression" ->
            kid(1) \o <<"(">> \o List(2, <<",", " ">>) \o <<")">>
       [] n.type = "MemberExpression" -> kid(1) \o <<".">> \o kid(2)
       [] n.type = "ObjectExpression" ->
            IF n.style = "multi"
            THEN <<"{", "\n", " ", " ", " ", " ">>
                 \o List(1, <<",", "\n", " ", " ", " ", " ">>) \o <<"\n", "}">>
            ELSE <<"{">> \o List(1, <<",", " ">>) \o <<"}">>
       [] n.type \in {"Property", "ObjectProperty"} ->
            kid(1) \o <<":", " ">> \o kid(2)

\* The tree the parser builds from the text PrintNode wrote
RECURSIVE Reparse(_)
Reparse(n) ==
  [n EXCEPT !.type = IF n.type = "Literal" THEN "StringLiteral"
                     ELSE IF n.type = "Property" THEN "ObjectProperty"
                     ELSE n.type,
            !.kids = [i \in 1..Len(n.kids) |-> Reparse(n.kids[i])]]

\* getTemplateString(node)
getTemplateString(node) ==
  LET RECURSIVE Build(_)
      Build(i) ==
        IF i > Len(node.quasis) THEN <<>>
        ELSE node.quasis[i].cooked
             \o (IF i <= Len(node.kids)
                 THEN <<"$", "{">> \o PrintNode(node.kids[i]) \o <<"}">>
                 ELSE <<>>)
             \o Build(i + 1)
  IN Build(1)

\* containsStringLiteral(node)
RECURSIVE containsStringLiteral(_)
containsStringLiteral(node) ==
  IF IsStringNode(node) THEN TRUE
  ELSE IF node.type = "BinaryExpression" /\ node.text = <<"+">>
  THEN containsStringLiteral(node.kids[1]) \/ containsStringLiteral(node.kids[2])
  ELSE FALSE

\* collectBinaryParts that collects the right operand before the left one
RECURSIVE collectBinaryParts_RightFirst(_)
collectBinaryParts_RightFirst(n) ==
  IF n.type = "BinaryExpression" /\ n.text = <<"+">>
  THEN IF containsStringLiteral(n.kids[1]) \/ containsStringLiteral(n.kids[2])
       THEN collectBinaryParts_RightFirst(n.kids[2])
            \o collectBinaryParts_RightFirst(n.kids[1])
       ELSE <<[type |-> "expression", value |-> <<>>, node |-> n]>>
  ELSE IF IsStringNode(n)
  THEN <<[type |-> "string", value |-> n.text, node |-> n]>>
  ELSE <<[type |-> "expression", value |-> <<>>, node |-> n]>>

\* collectBinaryParts(node): the parts from left to right
RECURSIVE collectBinaryParts(_)
collectBinaryParts(n) ==
  IF n.type = "BinaryExpression" /\ n.text = <<"+">>
  THEN IF containsStringLiteral(n.kids[1]) \/ containsStringLiteral(n.kids[2])
       THEN collectBinaryParts(n.kids[1]) \o collectBinaryParts(n.kids[2])
       ELSE <<[type |-> "expression", value |-> <<>>, node |-> n]>>
  ELSE IF IsStringNode(n)
  THEN <<[type |-> "string", value |-> n.text, node |-> n]>>
  ELSE <<[type |-> "expression", value |-> <<>>, node |-> n]>>

\* The loop of lines 66-80: templateText and variables of the parts
RECURSIVE ComposeParts(_, _)
ComposeParts(parts, n) ==
  IF parts = <<>> THEN [text |-> <<>>, variables |-> <<>>]
  ELSE LET part == Head(parts)
       IN IF part.type = "string"
          THEN LET rest == ComposeParts(Tail(parts), n)
               IN [text |-> part.value \o rest.text, variables |-> rest.variables]
          ELSE LET paramName == <<"p", "a", "r", "a", "m">> \o NatToStr(n + 1)
                   rest == ComposeParts(Tail(parts), n + 1)
               IN [text |-> <<"{">> \o paramName \o <<"}">> \o rest.text,
                   variables |-> <<[name |-> paramName, expression |-> part.node]>>
                                 \o rest.variables]

\* isInConsoleCall that finds no console call
IsConsoleCall_Never(n) == FALSE

\* The parent a path has, as the visitors read it
IsConsoleCall(n) ==
  /\ n.type = "CallExpression"
  /\ n.kids[1].type = "MemberExpression"
  /\ NameOf(n.kids[1].kids[1]) = <<"c", "o", "n", "s", "o", "l", "e">>

\* isInI18nCall(path), of the parent node
IsI18nCall(parent) ==
  /\ parent.type = "CallExpression"
  /\ LET callee == parent.kids[1]
     IN \/ /\ callee.type = "MemberExpression"
           /\ \/ /\ NameOf(callee.kids[1]) \in {<<"i", "1", "8", "n">>,
                                                <<"$", "i", "1", "8", "n">>}
                 /\ NameOf(callee.kids[2]) = <<"t">>
              \/ NameOf(callee.kids[2]) = <<"$", "t">>
        \/ /\ callee.type = "Identifier"
           /\ callee.text = <<"$", "t">>

\* What a visitor knows of the path of a node: isInConsoleCall(path),
\* path.parent.node, isInI18nCall(path), isObjectPropertyKey(path),
\* processedNodes.has(node)
TopCtx ==
  [inConsole |-> FALSE, parentType |-> "AssignmentExpression",
   parentOp |-> <<"=">>, inI18n |-> FALSE, isKey |-> FALSE,
   processed |-> FALSE]

\* The path of the i-th child of n; marked says n is in processedNodes
\* (markProcessedNodes marks the operands of a marked BinaryExpression)
ChildCtx(n, i, ctx, marked) ==
  [inConsole |-> ctx.inConsole \/ IsConsoleCall(n),
   parentType |-> n.type,
   parentOp |-> n.text,
   inI18n |-> IsI18nCall(n),
   isKey |-> n.type \in {"Property", "ObjectProperty"} /\ i = 1,
   processed |-> marked /\ n.type = "BinaryExpression"]

\* $i18n.t(key) or $i18n.t(key, { properties }), then + 'colon'
I18nCall(key, args) ==
  callExpression(memberExpression(identifier(<<"$", "i", "1", "8", "n">>),
                                  identifier(<<"t">>)),
                 <<literal(key)>> \o args)

WithColon(call, c) ==
  IF c.hasColonSuffix THEN binaryExpression(<<"+">>, call, literal(c.colonChar))
  ELSE call

\* visit(ast, visitors) at one node: the node that stands there afterwards,
\* unmatchedTexts afterwards, and whether a builder threw
RECURSIVE Visit(_, _, _)
RECURSIVE Traverse(_, _, _, _)

\* this.traverse(path)
Traverse(n, ctx, marked, unm) ==
  LET RECURSIVE Kids(_, _)
      Cons(a, rest) ==
        [kids |-> <<a.node>> \o rest.kids, unm |-> rest.unm,
         raised |-> rest.raised]
      Kid(i, a) ==
        IF a.raised THEN [kids |-> <<>>, unm |-> a.unm, raised |-> TRUE]
        ELSE Cons(a, Kids(i + 1, a.unm))
      Kids(i, u) ==
        IF i > Len(n.kids) THEN [kids |-> <<>>, unm |-> u, raised |-> FALSE]
        ELSE Kid(i, Visit(n.kids[i], ChildCtx(n, i, ctx, marked), u))
      Result(r) ==
        IF r.raised THEN [node |-> n, unm |-> r.unm, raised |-> TRUE]
        ELSE [node |-> [n EXCEPT !.kids = r.kids], unm |-> r.unm,
              raised |-> FALSE]
  IN Result(Kids(1, unm))

\* How a visitor leaves its node: it stands as it is or replaced and
\* this.traverse(path) goes on below it (marked: it is in processedNodes);
\* or it is replaced and the visitor returns false; or a builder threw
Stay(node, marked, unm) ==
  [node |-> node, traverse |-> TRUE, marked |-> marked, unm |-> unm,
   raised |-> FALSE]

Replaced(node, unm) ==
  [node |-> node, traverse |-> FALSE, marked |-> FALSE, unm |-> unm,
   raised |-> FALSE]

Threw(node, unm) ==
  [node |-> node, traverse |-> FALSE, marked |-> FALSE, unm |-> unm,
   raised |-> TRUE]

\* visitBinaryExpression(path)
visitBinaryExpression(node, ctx, unm) ==
  LET Args(variables) ==
        IF Len(variables) > 0
        THEN <<objectExpression(
                 [i \in 1..Len(variables) |->
                    property(identifier(variables[i].name),
                             variables[i].expression)])>>
        ELSE <<>>
      Resolved(composed, c, k) ==
        IF k.isNull THEN Stay(node, TRUE, k.unm)
        ELSE Replaced(WithColon(I18nCall(k.key, Args(composed.variables)), c),
                      k.unm)
      Colon(composed, cleaned, c) ==
        Resolved(composed, c,
                 getKeyForChinese(IF c.hasColonSuffix THEN c.textWithoutColon
                                  ELSE cleaned, unm))
      Cleaned(composed, cleaned) ==
        IF ~isOnlyChinese(cleaned) THEN Stay(node, FALSE, unm)
        ELSE Colon(composed, cleaned, detectColonSuffix(cleaned))
      Composed(composed) == Cleaned(composed, cleanString(composed.text))
      Parts(parts) ==
        IF ~\E i \in 1..Len(parts) : parts[i].type = "string"
        THEN Stay(node, FALSE, unm)
        ELSE Composed(ComposeParts(parts, 0))
  IN IF \/ ctx.processed
        \/ node.text # <<"+">>
        \/ ctx.inConsole
        \/ ctx.inI18n
     THEN Stay(node, ctx.processed, unm)
     ELSE Parts(collectBinaryParts(node))

\* visitLiteral without the two checks that leave the parts of a + chain to
\* visitBinaryExpression
visitLiteral_NoChainGuard(node, ctx, unm) ==
  LET Resolved(c, k) ==
        IF k.isNull THEN Stay(node, FALSE, k.unm)
        ELSE Stay(WithColon(I18nCall(k.key, <<>>), c), FALSE, k.unm)
      Colon(cleaned, c) ==
        Resolved(c, getKeyForChinese(IF c.hasColonSuffix THEN c.textWithoutColon
                                     ELSE cleaned, unm))
      Cleaned(cleaned) ==
        IF ~isOnlyChinese(cleaned) THEN Stay(node, FALSE, unm)
        ELSE Colon(cleaned, detectColonSuffix(cleaned))
  IN IF \/ ~IsStringNode(node)
        \/ ctx.isKey
        \/ ctx.inConsole
        \/ ctx.inI18n
     THEN Stay(node, FALSE, unm)
     ELSE Cleaned(cleanString(node.text))

\* visitLiteral(path)
visitLiteral(node, ctx, unm) ==
  LET Resolved(c, k) ==
        IF k.isNull THEN Stay(node, FALSE, k.unm)
        ELSE Stay(WithColon(I18nCall(k.key, <<>>), c), FALSE, k.unm)
      Colon(cleaned, c) ==
        Resolved(c, getKeyForChinese(IF c.hasColonSuffix THEN c.textWithoutColon
                                     ELSE cleaned, unm))
      Cleaned(cleaned) ==
        IF ~isOnlyChinese(cleaned) THEN Stay(node, FALSE, unm)
        ELSE Colon(cleaned, detectColonSuffix(cleaned))
  IN IF \/ ~IsStringNode(node)
        \/ ctx.processed
        \/ ctx.parentType = "BinaryExpression" /\ ctx.parentOp = <<"+">>
        \/ ctx.isKey
        \/ ctx.inConsole
        \/ ctx.inI18n
     THEN Stay(node, FALSE, unm)
     ELSE Cleaned(cleanString(node.text))

\* visitTemplateLiteral(path)
visitTemplateLiteral(node, ctx, unm) ==
  LET Call(c, k, args) ==
        Stay(WithColon(I18nCall(k.key, args), c), FALSE, k.unm)
      Properties(params) ==
        [i \in 1..Len(params) |->
           property(identifier(params[i].name), node.kids[i])]
      Resolved(v, c, k) ==
        IF k.isNull THEN Stay(node, FALSE, k.unm)
        \* b.property('init', key, undefined) throws
        ELSE IF Len(v.params) > Len(node.kids) THEN Threw(node, k.unm)
        ELSE Call(c, k, <<objectExpression(Properties(v.params))>>)
      Colon(v, c) ==
        Resolved(v, c,
                 getKeyForChinese(IF c.hasColonSuffix THEN c.textWithoutColon
                                  ELSE v.text, unm))
      Vars(v) == Colon(v, detectColonSuffix(v.text))
      PlainResolved(c, k) ==
        IF k.isNull THEN Stay(node, FALSE, k.unm) ELSE Call(c, k, <<>>)
      PlainColon(cleaned, c) ==
        PlainResolved(c, getKeyForChinese(IF c.hasColonSuffix
                                          THEN c.textWithoutColon ELSE cleaned,
                                          unm))
      Cleaned(templateText, cleaned) ==
        IF ~isOnlyChinese(cleaned) THEN Stay(node, FALSE, unm)
        ELSE IF Len(node.kids) > 0 THEN Vars(extractTemplateVars(templateText))
        ELSE PlainColon(cleaned, detectColonSuffix(cleaned))
      Text(templateText) == Cleaned(templateText, cleanString(templateText))
  IN IF ctx.inConsole \/ ctx.inI18n THEN Stay(node, FALSE, unm)
     ELSE Text(getTemplateString(node))

Visit(n, ctx, unm) ==
  LET Step(d) ==
        IF d.raised THEN [node |-> d.node, unm |-> d.unm, raised |-> TRUE]
        ELSE IF d.traverse THEN Traverse(d.node, ctx, d.marked, d.unm)
        ELSE [node |-> d.node, unm |-> d.unm, raised |-> FALSE]
  IN Step(IF n.type = "BinaryExpression"
          THEN visitBinaryExpression(n, ctx, unm)
          ELSE IF n.type \in {"Literal", "StringLiteral", "NumericLiteral"}
          THEN visitLiteral(n, ctx, unm)
          ELSE IF n.type = "TemplateLiteral"
          THEN visitTemplateLiteral(n, ctx, unm)
          ELSE Stay(n, FALSE, unm))

\* The source text of a code region whose statements assign the expressions
\* of body: one statement a line
RECURSIVE PrintBody(_)
PrintBody(body) ==
  IF body = <<>> THEN <<>>
  ELSE <<"v", " ", "=", " ">> \o PrintNode(Head(body)) \o <<";", "\n">>
       \o PrintBody(Tail(body))

\* visit(ast, visitors) over the statements of the region from the i-th on:
\* the expressions that stand there afterwards, unmatchedTexts afterwards,
\* and whether a visitor threw
RECURSIVE VisitAst(_, _, _)
VisitAst(body, i, u) ==
  LET Cons(a, rest) ==
        [body |-> <<a.node>> \o rest.body, unm |-> rest.unm,
         raised |-> rest.raised]
      Statement(a) ==
        IF a.raised THEN [body |-> <<>>, unm |-> a.unm, raised |-> TRUE]
        ELSE Cons(a, VisitAst(body, i + 1, a.unm))
  IN IF i > Len(body) THEN [body |-> <<>>, unm |-> u, raised |-> FALSE]
     ELSE Statement(Visit(body[i], TopCtx, u))

\* convertScript whose catch returns nothing instead of scriptContent
convertScript_DropsOnError(scriptContent, unm) ==
  LET Printed(r) ==
        IF r.raised
        THEN [code |-> <<>>, parses |-> TRUE, body |-> <<>>, unm |-> r.unm]
        ELSE [code |-> PrintBody(r.body), parses |-> TRUE,
              body |-> [i \in 1..Len(r.body) |-> Reparse(r.body[i])],
              unm |-> r.unm]
  IN IF scriptContent.code = <<>> \/ ~scriptContent.parses
     THEN [code |-> <<>>, parses |-> TRUE, body |-> <<>>, unm |-> unm]
     ELSE Printed(VisitAst(scriptContent.body, 1, unm))

\* convertScript(scriptContent) with unmatchedTexts = unm.  The region is
\* [code, parses, body]: its text, whether recast.parse accepts it, and the
\* expressions of its statements.  The result is the text returned, the
\* tree of that text and unmatchedTexts afterwards.
convertScript(scriptContent, unm) ==
  LET Printed(r) ==
        \* a visitor throws: the catch returns scriptContent
        IF r.raised
        THEN [code |-> scriptContent.code, parses |-> TRUE,
              body |-> scriptContent.body, unm |-> r.unm]
        ELSE [code |-> PrintBody(r.body), parses |-> TRUE,
              body |-> [i \in 1..Len(r.body) |-> Reparse(r.body[i])],
              unm |-> r.unm]
  IN IF scriptContent.code = <<>>
     THEN [code |-> <<>>, parses |-> TRUE, body |-> <<>>, unm |-> unm]
     \* recast.parse throws: the catch returns scriptContent
     ELSE IF ~scriptContent.parses
     THEN [code |-> scriptContent.code, parses |-> FALSE,
           body |-> scriptContent.body, unm |-> unm]
     ELSE Printed(VisitAst(scriptContent.body, 1, unm))

-----------------------------------------------------------------------------
(* Inputs of the bounded model                                             *)

\* Bounds
MaxLeaves == 3

kCommon == <<"c", "o", "m", "m", "o", "n">>
kPda == <<"p", "d", "a">>
kPd == <<"p", "d">>
kOther == <<"o", "t", "h", "e", "r">>

\* The leaves a dictionary is made of: the object its key sits in, the key
\* and the text
LeafPaths == {<<kCommon, <<"a">>>>, <<kCommon, <<"b">>>>, <<kPda, <<"a">>>>,
              <<kPda, <<"b">>>>, <<kOther, <<"a">>>>}
DictTexts == {<<"Zh1">>, <<"Zh1", "FwColon">>}
Leaves == [path : LeafPaths, text : DictTexts]

\* The object literal with these leaves: a namespace object is created where
\* its first leaf stands, and later leaves of the namespace are added to it
AddLeaf(obj, leaf) ==
  LET at == {i \in 1..Len(obj) : obj[i].key = leaf.path[1]}
      prop == [key |-> leaf.path[2], kind |-> "string", text |-> leaf.text,
               children |-> <<>>]
  IN IF at = {}
     THEN Append(obj, [key |-> leaf.path[1], kind |-> "object", text |-> <<>>,
                       children |-> <<prop>>])
     ELSE LET i == CHOOSE i \in at : TRUE
          IN [obj EXCEPT ![i].children = Append(@, prop)]

RECURSIVE ObjectOf(_)
ObjectOf(leaves) ==
  IF leaves = <<>> THEN <<>>
  ELSE AddLeaf(ObjectOf(SubSeq(leaves, 1, Len(leaves) - 1)), leaves[Len(leaves)])

LeafSeqs ==
  UNION {{q \in [1..n -> Leaves] :
            \A i, j \in 1..n : i # j => q[i].path # q[j].path} : n \in 0..MaxLeaves}

Dicts == {ObjectOf(q) : q \in LeafSeqs}

\* The options the command line can hand over
Options == [skipUnmatched : BOOLEAN, matchPath : {NoPath, kPda, kPd}]

\* The texts resolution is asked for
LookupTexts == {<<"Zh1">>, <<"Zh2">>}

NoFile == [parts |-> <<>>, sfcOk |-> TRUE]

-----------------------------------------------------------------------------
(* The exported operations of utils.js, called as convertVueFile calls     *)
(* them: reset, options, load, then resolution calls.                      *)

InitUtils ==
  /\ i18nMap = <<>>
  /\ unmatchedTexts = <<>>
  /\ skipUnmatched = FALSE
  /\ matchPath = NoPath
  /\ zhData \in [exists : {TRUE}, readable : {TRUE}, data : Dicts]
  /\ input = <<>>
  /\ output = [isNull |-> TRUE, key |-> <<>>]
  /\ before = <<>>
  /\ last = "init"
  /\ again = FALSE
  /\ pc = "idle"
  /\ file = NoFile
  /\ disk = <<>>
  /\ report = <<>>
  /\ runs = 0

\* resetUnmatchedTexts()
ResetUnmatchedTexts ==
  /\ last = "init"
  /\ unmatchedTexts' = <<>>
  /\ last' = "reset"
  /\ UNCHANGED <<i18nMap, skipUnmatched, matchPath, zhData, input, output,
                 before, again, pc, file, disk, report, runs>>

\* setConvertOptions(options)
SetConvertOptions ==
  /\ last = "reset"
  /\ \E options \in Options :
       /\ skipUnmatched' = OptSkip(options)
       /\ matchPath' = OptPath(options)
  /\ last' = "options"
  /\ UNCHANGED <<i18nMap, unmatchedTexts, zhData, input, output, before,
                 again, pc, file, disk, report, runs>>

\* loadI18nMap(zhFilePath)
LoadI18nMap ==
  /\ last = "options"
  /\ i18nMap' = LoadedMap(zhData)
  /\ last' = "load"
  /\ UNCHANGED <<unmatchedTexts, skipUnmatched, matchPath, zhData, input,
                 output, before, again, pc, file, disk, report, runs>>

\* getKeyForChinese(chineseText)
GetKeyForChinese ==
  /\ last \in {"load", "getKey"}
  /\ \E chineseText \in LookupTexts :
       LET r == getKeyForChinese(chineseText, unmatchedTexts)
       IN /\ input' = chineseText
          /\ output' = [isNull |-> r.isNull, key |-> r.key]
          /\ unmatchedTexts' = r.unm
  /\ before' = unmatchedTexts
  /\ last' = "getKey"
  /\ UNCHANGED <<i18nMap, skipUnmatched, matchPath, zhData, again, pc, file,
                 disk, report, runs>>

NextUtils ==
  \/ ResetUnmatchedTexts
  \/ SetConvertOptions
  \/ LoadI18nMap
  \/ GetKeyForChinese

SpecUtils == InitUtils /\ [][NextUtils]_vars

-----------------------------------------------------------------------------
(* Inputs of the rewriters                                                 *)

\* Bounds
MaxPieces == 2

\* The texts a region holds: one the dictionaries below know, one they do
\* not, and each with a trailing colon
RegionTexts == {<<"Zh1">>, <<"Zh2">>, <<"Zh1", "FwColon">>, <<"Zh2", ":">>}

\* The places of a template region a text can stand in
PieceKinds == {"text", "mixed", "attr", "bound", "tplAttr", "interp",
               "tplInterp", "comment", "braces", "gt"}
Pieces ==
  [kind : PieceKinds, text : RegionTexts]
  \cup {[kind |-> "tplInterpIdent", text |-> <<"a">>],
        [kind |-> "tplAttrIdent", text |-> <<"a">>],
        [kind |-> "commented", text |-> <<"Zh1">>]}

Str_p == <<"<", "p", ">">>
Str_endp == <<"<", "/", "p", ">">>
Str_title == <<"t", "i", "t", "l", "e">>
Str_hole == <<"$", "{", "w", "}">>

\* The markup of one piece
Render(piece) ==
  LET t == piece.text
  IN CASE piece.kind = "text" -> Str_p \o t \o Str_endp
       [] piece.kind = "mixed" ->
            Str_p \o t \o <<"{", "{", " ", "x", " ", "}", "}">> \o Str_endp
       [] piece.kind = "attr" ->
            <<"<", "a", " ">> \o Str_title \o <<"=", "\"">> \o t
            \o <<"\"", "/", ">">>
       [] piece.kind = "bound" ->
            <<"<", "a", " ", ":">> \o Str_title \o <<"=", "\"", "'">> \o t
            \o <<"'", "\"", "/", ">">>
       [] piece.kind = "tplAttr" ->
            <<"<", "a", " ", ":">> \o Str_title \o <<"=", "\"", "Backtick">>
            \o Str_hole \o t \o <<"Backtick", "\"", "/", ">">>
       [] piece.kind = "interp" ->
            Str_p \o <<"{", "{", " ", "'">> \o t \o <<"'", " ", "}", "}">>
            \o Str_endp
       [] piece.kind = "tplInterp" ->
            Str_p \o <<"{", "{", " ", "Backtick">> \o Str_hole \o t
            \o <<"Backtick", " ", "}", "}">> \o Str_endp
       [] piece.kind = "comment" ->
            <<"<", "!", "-", "-", " ">> \o t \o <<" ", "-", "-", ">">>
       [] piece.kind = "braces" ->
            Str_p \o t \o <<"}", "}">> \o t \o Str_endp
       [] piece.kind = "gt" ->
            <<"<", "b", " ", "v", "-", "i", "f", "=", "\"", "a", " ", ">", " ",
              "0", "\"", " ">> \o Str_title \o <<"=", "\"">> \o t
            \o <<"\"", ">", "x", "<", "/", "b", ">">>
       \* a template string whose only Chinese character is in its variable
       [] piece.kind = "tplInterpIdent" ->
            Str_p \o <<"{", "{", " ", "Backtick", "$", "{", "Zh3", "}">> \o t
            \o <<"Backtick", " ", "}", "}">> \o Str_endp
       [] piece.kind = "tplAttrIdent" ->
            <<"<", "a", " ", ":">> \o Str_title
            \o <<"=", "\"", "Backtick", "$", "{", "Zh3", "}">> \o t
            \o <<"Backtick", "\"", "/", ">">>
       \* a text followed by a comment in one element
       [] piece.kind = "commented" ->
            Str_p \o t \o <<"<", "!", "-", "-", " ", "Zh2", " ", "-", "-", ">">>
            \o Str_endp

\* The template regions: up to MaxPieces pieces in a row
Templates == UNION {[1..n -> Pieces] : n \in 1..MaxPieces}

\* The markup of a region
RenderAll(pieces) == Join([i \in 1..Len(pieces) |-> Render(pieces[i])])

\* The dictionaries and options of the rewriter runs: no entry; an entry
\* under common; an entry outside the scope prefix
Leaf(ns, key, text) ==
  <<[key |-> ns, kind |-> "object", text |-> <<>>,
     children |-> <<[key |-> key, kind |-> "string", text |-> text,
                     children |-> <<>>]>>]>>

kUser == <<"u", "s", "e", "r">>
kCurrent == <<"c", "u", "r", "r", "e", "n", "t">>
kUserCurrent == kUser \o <<".">> \o kCurrent

Setups ==
  {[data |-> <<>>, matchPath |-> NoPath],
   [data |-> Leaf(kUser, kCurrent, <<"Zh1", "FwColon">>), matchPath |-> NoPath],
   [data |-> Leaf(kOther, <<"a">>, <<"Zh1">>), matchPath |-> kPda]}

\* The places of a code region a text can stand in, and three expressions
\* without a text of their own
MaxStatements == 2

ScriptKinds == {"str", "tpl0", "tplStart", "tplEnd", "chainEnd", "chainFn",
                "tplHole", "console", "i18n", "key"}
ScriptParts ==
  [kind : ScriptKinds, text : RegionTexts]
  \cup {[kind |-> "tplIdent", text |-> <<"a">>],
        [kind |-> "tplNested", text |-> <<"Zh1">>],
        [kind |-> "plain", text |-> <<"x">>],
        [kind |-> "consoleChain", text |-> <<"Zh1">>],
        [kind |-> "consoleTpl", text |-> <<"Zh1">>],
        [kind |-> "consoleNested", text |-> <<"Zh1">>],
        [kind |-> "i18nChain", text |-> <<"Zh1">>],
        [kind |-> "i18nTpl", text |-> <<"Zh1">>],
        [kind |-> "thisT", text |-> <<"Zh1">>],
        [kind |-> "thisI18n", text |-> <<"Zh1">>],
        [kind |-> "tpl2", text |-> <<"Zh2">>],
        [kind |-> "chain2", text |-> <<"Zh2", ":">>]}

Id_u == identifier(<<"u">>)
Id_f == identifier(<<"f">>)

\* The expression of one part
ExprOf(part) ==
  LET t == part.text
      s == stringLiteral(t, "'")
      call == callExpression(Id_f, <<stringLiteral(<<"Zh1">>, "'")>>)
  IN CASE part.kind = "str" -> s
       [] part.kind = "tpl0" -> templateLiteral(<<Quasi(t)>>, <<>>)
       [] part.kind = "tplStart" ->
            templateLiteral(<<Quasi(t), Quasi(<<>>)>>, <<Id_u>>)
       [] part.kind = "tplEnd" ->
            templateLiteral(<<Quasi(<<>>), Quasi(t)>>, <<Id_u>>)
       [] part.kind = "chainEnd" -> binaryExpression(<<"+">>, Id_u, s)
       [] part.kind = "chainFn" -> binaryExpression(<<"+">>, s, call)
       [] part.kind = "tplHole" ->
            templateLiteral(<<Quasi(t), Quasi(<<>>)>>, <<call>>)
       [] part.kind = "console" ->
            callExpression(memberExpression(
                             identifier(<<"c", "o", "n", "s", "o", "l", "e">>),
                             identifier(<<"l", "o", "g">>)), <<s>>)
       [] part.kind = "i18n" -> callExpression(identifier(<<"$", "t">>), <<s>>)
       [] part.kind = "key" ->
            Nd("ObjectExpression", <<>>, "one", <<>>,
               <<Nd("ObjectProperty", <<>>, "", <<>>,
                    <<s, numericLiteral(<<"1">>)>>)>>)
       [] part.kind = "tplIdent" ->
            templateLiteral(<<Quasi(<<>>), Quasi(t)>>, <<identifier(<<"Zh3">>)>>)
       [] part.kind = "tplNested" ->
            templateLiteral(
              <<Quasi(<<>>), Quasi(t)>>,
              <<templateLiteral(<<Quasi(<<>>), Quasi(<<>>), Quasi(<<>>)>>,
                                <<identifier(<<"a">>), identifier(<<"b">>)>>)>>)
       [] part.kind = "plain" ->
            binaryExpression(<<"+">>, stringLiteral(t, "'"),
                             binaryExpression(<<"+">>, identifier(<<"a">>),
                                              numericLiteral(<<"1">>)))
       \* a chain, a template literal and a nested literal in console calls
       [] part.kind = "consoleChain" ->
            callExpression(memberExpression(
                             identifier(<<"c", "o", "n", "s", "o", "l", "e">>),
                             identifier(<<"e", "r", "r", "o", "r">>)),
                           <<binaryExpression(<<"+">>, s, Id_u)>>)
       [] part.kind = "consoleTpl" ->
            callExpression(memberExpression(
                             identifier(<<"c", "o", "n", "s", "o", "l", "e">>),
                             identifier(<<"l", "o", "g">>)),
                           <<templateLiteral(<<Quasi(t), Quasi(<<>>)>>, <<Id_u>>)>>)
       [] part.kind = "consoleNested" ->
            callExpression(memberExpression(
                             identifier(<<"c", "o", "n", "s", "o", "l", "e">>),
                             identifier(<<"l", "o", "g">>)),
                           <<callExpression(Id_f, <<s>>)>>)
       \* arguments of $i18n.t, i18n.t, this.$t and this.$i18n.t
       [] part.kind = "i18nChain" ->
            callExpression(memberExpression(
                             identifier(<<"$", "i", "1", "8", "n">>),
                             identifier(<<"t">>)),
                           <<binaryExpression(<<"+">>, s, Id_u)>>)
       [] part.kind = "i18nTpl" ->
            callExpression(memberExpression(identifier(<<"i", "1", "8", "n">>),
                                            identifier(<<"t">>)),
                           <<templateLiteral(<<Quasi(t), Quasi(<<>>)>>, <<Id_u>>)>>)
       [] part.kind = "thisT" ->
            callExpression(memberExpression(thisExpression,
                                            identifier(<<"$", "t">>)), <<s>>)
       [] part.kind = "thisI18n" ->
            callExpression(memberExpression(
                             memberExpression(
                               thisExpression,
                               identifier(<<"$", "i", "1", "8", "n">>)),
                             identifier(<<"t">>)), <<s>>)
       \* a template literal and a chain with two holes around the text
       [] part.kind = "tpl2" ->
            templateLiteral(<<Quasi(<<>>), Quasi(t), Quasi(<<>>)>>,
                            <<Id_u, Id_f>>)
       [] part.kind = "chain2" ->
            binaryExpression(<<"+">>, binaryExpression(<<"+">>, Id_u, s), Id_f)

\* The code regions: up to MaxStatements statements
Scripts == UNION {[1..n -> ScriptParts] : n \in 1..MaxStatements}

\* The region recast.parse reads: its text, whether it parses, its tree
Region(parts, parses) ==
  LET Of(body) ==
        [code |-> PrintBody(body) \o (IF parses THEN <<>> ELSE <<"(">>),
         parses |-> parses, body |-> body]
  IN Of([i \in 1..Len(parts) |-> ExprOf(parts[i])])

-----------------------------------------------------------------------------
(* The rewriters, called as parseVueFile calls them after the dictionary   *)
(* has been loaded, and called again on what they returned                 *)

InitConvert ==
  /\ \E setup \in Setups :
       /\ zhData = [exists |-> TRUE, readable |-> TRUE, data |-> setup.data]
       /\ i18nMap = LoadedMap(zhData)
       /\ matchPath = setup.matchPath
  /\ skipUnmatched \in BOOLEAN
  /\ unmatchedTexts = <<>>
  /\ \/ \E pieces \in Templates :
          /\ file = [region |-> "template", parts |-> pieces, parses |-> TRUE]
          /\ input = RenderAll(pieces)
     \/ \E parts \in Scripts, parses \in BOOLEAN :
          /\ parses \/ Len(parts) = 1
          /\ file = [region |-> "script", parts |-> parts, parses |-> parses]
          /\ input = Region(parts, parses)
  /\ output = <<>>
  /\ before = <<>>
  /\ last = "load"
  /\ again = FALSE
  /\ pc = "idle"
  /\ disk = <<>>
  /\ report = <<>>
  /\ runs = 0

\* convertTemplate(templateContent) on the region
ConvertTemplate ==
  /\ last = "load"
  /\ file.region = "template"
  /\ LET Set(r) == /\ output' = r.text
                   /\ unmatchedTexts' = r.unm
     IN Set(convertTemplate(input, unmatchedTexts))
  /\ before' = unmatchedTexts
  /\ last' = "template"
  /\ UNCHANGED <<i18nMap, skipUnmatched, matchPath, zhData, input, again, pc,
                 file, disk, report, runs>>

\* convertTemplate on the markup the first call returned
ConvertTemplateAgain ==
  /\ last = "template"
  /\ ~again
  /\ LET Set(r) == /\ output' = r.text
                   /\ unmatchedTexts' = r.unm
     IN Set(convertTemplate(output, unmatchedTexts))
  /\ input' = output
  /\ before' = unmatchedTexts
  /\ again' = TRUE
  /\ UNCHANGED <<i18nMap, skipUnmatched, matchPath, zhData, last, pc, file,
                 disk, report, runs>>

\* convertScript(scriptContent) on the region
ConvertScript ==
  /\ last = "load"
  /\ file.region = "script"
  /\ LET Set(r) ==
           /\ output' = [code |-> r.code, parses |-> r.parses, body |-> r.body]
           /\ unmatchedTexts' = r.unm
     IN Set(convertScript(input, unmatchedTexts))
  /\ before' = unmatchedTexts
  /\ last' = "script"
  /\ UNCHANGED <<i18nMap, skipUnmatched, matchPath, zhData, input, again, pc,
                 file, disk, report, runs>>

\* convertScript on the code the first call returned
ConvertScriptAgain ==
  /\ last = "script"
  /\ ~again
  /\ LET Set(r) ==
           /\ output' = [code |-> r.code, parses |-> r.parses, body |-> r.body]
           /\ unmatchedTexts' = r.unm
     IN Set(convertScript(output, unmatchedTexts))
  /\ input' = output
  /\ before' = unmatchedTexts
  /\ again' = TRUE
  /\ UNCHANGED <<i18nMap, skipUnmatched, matchPath, zhData, last, pc, file,
                 disk, report, runs>>

NextConvert ==
  \/ ConvertTemplate
  \/ ConvertTemplateAgain
  \/ ConvertScript
  \/ ConvertScriptAgain

SpecConvert == InitConvert /\ [][NextConvert]_vars

-----------------------------------------------------------------------------
(* parser.js: convertVueFile on one file.  pc is the position inside the   *)
(* call: "idle" before it, "template" and "script" inside parseVueFile,    *)
(* "write" and "save" after it, "failed" in the catch of line 136, "done"  *)
(* when the call has returned.                                             *)

\* String.prototype.indexOf(p, from) and substring(a, b), 0-based
IndexOf(s, p, from) == IndexOfFrom(s, p, from + 1) - 1

Substring(s, a, b) ==
  LET clamp(x) == IF x < 0 THEN 0 ELSE IF x > Len(s) THEN Len(s) ELSE x
      lo == IF clamp(a) <= clamp(b) THEN clamp(a) ELSE clamp(b)
      hi == IF clamp(a) <= clamp(b) THEN clamp(b) ELSE clamp(a)
  IN SubSeq(s, lo + 1, hi)

Str_templateOpen ==
  <<"<", "t", "e", "m", "p", "l", "a", "t", "e", ">">>
Str_templateClose ==
  <<"<", "/", "t", "e", "m", "p", "l", "a", "t", "e", ">", "\n">>
Str_scriptOpen ==
  <<"<", "s", "c", "r", "i", "p", "t", ">">>
Str_scriptClose ==
  <<"<", "/", "s", "c", "r", "i", "p", "t", ">", "\n">>
Str_style ==
  <<"<", "s", "t", "y", "l", "e", ">", "<", "/", "s", "t", "y", "l", "e",
    ">", "\n">>

\* The files of the model: a template block of one piece or none, a script
\* block of up to MaxStatements statements or none, which may fail to parse,
\* the two blocks in either order;
\* and a missing file, a file that is not .vue, a file the SFC parser rejects
FileTexts == {<<"Zh1">>, <<"Zh2", ":">>}
FilePieces == [kind : {"text", "attr"}, text : FileTexts]
FileTemplates == {<<>>} \cup {<<piece>> : piece \in FilePieces}
FileParts ==
  [kind : {"str", "tplEnd"}, text : FileTexts]
  \cup {[kind |-> "tplNested", text |-> <<"Zh1">>]}
FileScripts == UNION {[1..n -> FileParts] : n \in 0..MaxStatements}

VueFile(exists, isVue, sfcOk, pieces, script, parses) ==
  [exists |-> exists, isVue |-> isVue, sfcOk |-> sfcOk, parts |-> pieces,
   script |-> script, parses |-> parses, scriptFirst |-> FALSE]

\* The same file with its script block written before its template block
ScriptFirst(f) == [f EXCEPT !.scriptFirst = TRUE]

VueFiles ==
  {VueFile(TRUE, TRUE, TRUE, pieces, script, parses) :
     pieces \in FileTemplates,
     script \in FileScripts \ {<<>>},
     parses \in BOOLEAN}
  \cup {ScriptFirst(VueFile(TRUE, TRUE, TRUE, pieces, script, parses)) :
          pieces \in FileTemplates \ {<<>>},
          script \in FileScripts \ {<<>>},
          parses \in BOOLEAN}
  \cup {VueFile(TRUE, TRUE, TRUE, pieces, <<>>, TRUE) : pieces \in FileTemplates}
  \cup {VueFile(FALSE, TRUE, TRUE, <<>>, <<>>, TRUE),
        VueFile(TRUE, FALSE, TRUE, <<>>, <<>>, TRUE),
        VueFile(TRUE, TRUE, FALSE, <<>>, <<>>, TRUE)}

\* descriptor.template.content and descriptor.script.content of a file
TemplateContent(f) == RenderAll(f.parts)
ScriptContent(f) == Region(f.script, f.parses)

\* The text of a file: its blocks between their tags, in the order the file
\* has them, then a style block
TemplateBlock(f, content) ==
  IF f.parts # <<>>
  THEN Str_templateOpen \o content \o Str_templateClose ELSE <<>>
ScriptBlock(f, code) ==
  IF f.script # <<>> THEN Str_scriptOpen \o code \o Str_scriptClose ELSE <<>>
Compose(f, content, code) ==
  (IF f.scriptFirst
   THEN ScriptBlock(f, code) \o TemplateBlock(f, content)
   ELSE TemplateBlock(f, content) \o ScriptBlock(f, code))
  \o Str_style
Source(f) == Compose(f, TemplateContent(f), ScriptContent(f).code)

\* The zh.js of a run: one that loads, one that exists and throws on
\* require, and none found
ZhFiles ==
  {[exists |-> TRUE, readable |-> TRUE, data |-> setup.data] : setup \in Setups}
  \cup {[exists |-> TRUE, readable |-> FALSE, data |-> <<>>],
        [exists |-> FALSE, readable |-> FALSE, data |-> <<>>]}

NoResult == [result |-> <<>>, currentIndex |-> 0, template |-> <<>>,
             script |-> <<>>]

Init ==
  /\ i18nMap = <<>>
  /\ unmatchedTexts = <<>>
  /\ skipUnmatched = FALSE
  /\ matchPath = NoPath
  /\ zhData \in ZhFiles
  /\ file \in VueFiles
  /\ input = Source(file)
  /\ disk = input
  /\ output = NoResult
  /\ before = <<>>
  /\ last = "init"
  /\ again = FALSE
  /\ pc = "idle"
  /\ report = <<>>
  /\ runs = 0

\* convertVueFile, lines 70-123: the two checks, then resetUnmatchedTexts,
\* setConvertOptions and loadI18nMap
BeginConvert ==
  /\ pc = "idle"
  /\ IF ~file.exists \/ ~file.isVue
     THEN /\ pc' = "done"
          /\ UNCHANGED <<unmatchedTexts, skipUnmatched, matchPath, i18nMap>>
     ELSE /\ unmatchedTexts' = <<>>
          /\ \E options \in Options :
               /\ skipUnmatched' = OptSkip(options)
               /\ matchPath' = OptPath(options)
          \* loadI18nMap is called only where fs.existsSync finds a zh.js
          /\ i18nMap' = IF zhData.exists THEN LoadedMap(zhData) ELSE i18nMap
          /\ pc' = "template"
  /\ UNCHANGED <<zhData, input, output, before, last, again, file, disk,
                 report, runs>>

\* parseVueFile, lines 16-42: read and parse the file, convert the template
ParseTemplate ==
  /\ pc = "template"
  /\ IF ~file.sfcOk
     \* throw new Error(...), caught at line 136
     THEN /\ pc' = "failed"
          /\ UNCHANGED <<output, unmatchedTexts, before>>
     ELSE IF file.parts # <<>>
     THEN LET Set(originalContent, templateStart, r) ==
                /\ output' = [result |-> Substring(input, 0, templateStart)
                                         \o r.text,
                              currentIndex |-> templateStart
                                               + Len(originalContent),
                              template |-> r.text,
                              script |-> <<>>]
                /\ unmatchedTexts' = r.unm
              Found(originalContent, templateStart) ==
                Set(originalContent, templateStart,
                    convertTemplate(originalContent, unmatchedTexts))
              Template(originalContent) ==
                Found(originalContent, IndexOf(input, originalContent, 0))
          IN /\ Template(TemplateContent(file))
             /\ before' = unmatchedTexts
             /\ pc' = "script"
     ELSE /\ pc' = "script"
          /\ UNCHANGED <<output, unmatchedTexts, before>>
  /\ UNCHANGED <<i18nMap, skipUnmatched, matchPath, zhData, input, last, again,
                 file, disk, report, runs>>

\* parseVueFile, lines 44-60: convert the script, add what follows it
ParseScript ==
  /\ pc = "script"
  /\ IF file.script # <<>>
     THEN LET Set(scriptStart, currentIndex, r) ==
                /\ output' = [result |-> output.result
                                         \o Substring(input, output.currentIndex,
                                                      scriptStart)
                                         \o r.code
                                         \o Substring(input, currentIndex,
                                                      Len(input)),
                              currentIndex |-> currentIndex,
                              template |-> output.template,
                              script |-> r.code]
                /\ unmatchedTexts' = r.unm
              Found(originalContent, scriptStart) ==
                Set(scriptStart, scriptStart + Len(originalContent.code),
                    convertScript(originalContent, unmatchedTexts))
              Script(originalContent) ==
                Found(originalContent,
                      IndexOf(input, originalContent.code, output.currentIndex))
          IN /\ Script(ScriptContent(file))
             /\ before' = unmatchedTexts
     ELSE /\ output' = [output EXCEPT
                          !.result = @ \o Substring(input, output.currentIndex,
                                                    Len(input))]
          /\ UNCHANGED <<unmatchedTexts, before>>
  /\ pc' = "write"
  /\ UNCHANGED <<i18nMap, skipUnmatched, matchPath, zhData, input, last, again,
                 file, disk, report, runs>>

\* convertVueFile, line 129: fs.writeFileSync(filePath, convertedContent)
WriteFile ==
  /\ pc = "write"
  /\ disk' = output.result
  /\ pc' = "save"
  /\ UNCHANGED <<i18nMap, unmatchedTexts, skipUnmatched, matchPath, zhData,
                 input, output, before, last, again, file, report, runs>>

\* saveUnmatchedKeys called before the script block is converted
SaveUnmatchedKeys_Early ==
  /\ pc = "script"
  /\ report' = SavedReport(report, unmatchedTexts)
  /\ runs' = runs + 1
  /\ pc' = "done"
  /\ UNCHANGED <<i18nMap, unmatchedTexts, skipUnmatched, matchPath, zhData,
                 input, output, before, last, again, file, disk>>

\* convertVueFile, lines 133-135: saveUnmatchedKeys(outputDir), then return
SaveUnmatchedKeys ==
  /\ pc = "save"
  /\ report' = SavedReport(report, unmatchedTexts)
  /\ runs' = runs + 1
  /\ pc' = "done"
  /\ UNCHANGED <<i18nMap, unmatchedTexts, skipUnmatched, matchPath, zhData,
                 input, output, before, last, again, file, disk>>

\* convertVueFile, lines 136-139: the catch logs the error and returns
CatchError ==
  /\ pc = "failed"
  /\ pc' = "done"
  /\ UNCHANGED <<i18nMap, unmatchedTexts, skipUnmatched, matchPath, zhData,
                 input, output, before, last, again, file, disk, report, runs>>

Next ==
  \/ BeginConvert
  \/ ParseTemplate
  \/ ParseScript
  \/ WriteFile
  \/ SaveUnmatchedKeys
  \/ CatchError

Spec == Init /\ [][Next]_vars


-----------------------------------------------------------------------------
(* convertVueFile called several times in one process: the module state of *)
(* utils.js lives on from one call to the next                             *)

\* Bounds
MaxRuns == 2

\* The files and dictionaries of the runs
RunFiles ==
  {VueFile(TRUE, TRUE, TRUE, pieces, script, TRUE) :
     pieces \in {<<>>, <<[kind |-> "text", text |-> <<"Zh1">>]>>},
     script \in {<<>>, <<[kind |-> "str", text |-> <<"Zh2", ":">>]>>}}
  \cup {VueFile(FALSE, TRUE, TRUE, <<>>, <<>>, TRUE),
        VueFile(TRUE, TRUE, FALSE, <<>>, <<>>, TRUE)}

RunZhFiles ==
  {[exists |-> TRUE, readable |-> TRUE,
    data |-> Leaf(kUser, kCurrent, <<"Zh1", "FwColon">>)],
   [exists |-> TRUE, readable |-> FALSE, data |-> <<>>],
   [exists |-> FALSE, readable |-> FALSE, data |-> <<>>]}

InitRuns ==
  /\ i18nMap = <<>>
  /\ unmatchedTexts = <<>>
  /\ skipUnmatched = FALSE
  /\ matchPath = NoPath
  /\ zhData \in RunZhFiles
  /\ file \in RunFiles
  /\ input = Source(file)
  /\ disk = input
  /\ output = NoResult
  /\ before = <<>>
  /\ last = "init"
  /\ again = FALSE
  /\ pc = "idle"
  /\ report = <<>>
  /\ runs = 0

\* The caller calls convertVueFile again, with another filePath and
\* zhFilePath; i18nMap, unmatchedTexts and the options are where the last
\* call left them
NextRun ==
  /\ pc = "done"
  /\ runs < MaxRuns
  /\ zhData' \in RunZhFiles
  /\ file' \in RunFiles
  /\ input' = Source(file')
  /\ disk' = input'
  /\ output' = NoResult
  /\ before' = <<>>
  /\ pc' = "idle"
  /\ UNCHANGED <<i18nMap, unmatchedTexts, skipUnmatched, matchPath, last,
                 again, report, runs>>

NextRuns ==
  \/ BeginConvert
  \/ ParseTemplate
  \/ ParseScript
  \/ WriteFile
  \/ SaveUnmatchedKeys
  \/ CatchError
  \/ NextRun

SpecRuns == InitRuns /\ [][NextRuns]_vars

-----------------------------------------------------------------------------
(* parser.js: the calls of convertVueFile one by one.  Between "idle" and  *)
(* "template" pc is "reset", "options" and "load": the call that is next.  *)

\* convertVueFile, lines 75-84: the two checks return before anything is set
CheckFile ==
  /\ pc = "idle"
  /\ pc' = IF ~file.exists \/ ~file.isVue THEN "done" ELSE "reset"
  /\ UNCHANGED <<i18nMap, unmatchedTexts, skipUnmatched, matchPath, zhData,
                 input, output, before, last, again, file, disk, report, runs>>

\* line 87: resetUnmatchedTexts()
CallReset ==
  /\ pc = "reset"
  /\ unmatchedTexts' = <<>>
  /\ pc' = "options"
  /\ UNCHANGED <<i18nMap, skipUnmatched, matchPath, zhData, input, output,
                 before, last, again, file, disk, report, runs>>

\* line 90: setConvertOptions(options)
CallSetOptions ==
  /\ pc = "options"
  /\ \E options \in Options :
       /\ skipUnmatched' = OptSkip(options)
       /\ matchPath' = OptPath(options)
  /\ pc' = "load"
  /\ UNCHANGED <<i18nMap, unmatchedTexts, zhData, input, output, before, last,
                 again, file, disk, report, runs>>

\* lines 93-123: loadI18nMap where fs.existsSync finds a zh.js
CallLoad ==
  /\ pc = "load"
  /\ i18nMap' = IF zhData.exists THEN LoadedMap(zhData) ELSE i18nMap
  /\ pc' = "template"
  /\ UNCHANGED <<unmatchedTexts, skipUnmatched, matchPath, zhData, input,
                 output, before, last, again, file, disk, report, runs>>

NextSteps ==
  \/ CheckFile
  \/ CallReset
  \/ CallSetOptions
  \/ CallLoad
  \/ ParseTemplate
  \/ ParseScript
  \/ WriteFile
  \/ SaveUnmatchedKeys
  \/ CatchError
  \/ NextRun

SpecSteps == InitRuns /\ [][NextSteps]_vars


-----------------------------------------------------------------------------
(* The string helpers of utils.js, applied to strings of up to MaxLen      *)
(* characters: spaces and the other whitespace, a digit, a letter and a    *)
(* Chinese character                                                       *)

\* Bounds
MaxLen == 3

Strings ==
  UNION {[1..n -> {" ", "\n", "\t", "\r", "1", "a", "Zh1"}] : n \in 0..MaxLen}

InitText ==
  /\ input \in Strings
  /\ output = <<>>
  /\ last = "init"
  /\ i18nMap = <<>>
  /\ unmatchedTexts = <<>>
  /\ skipUnmatched = FALSE
  /\ matchPath = NoPath
  /\ zhData = [exists |-> FALSE, readable |-> FALSE, data |-> <<>>]
  /\ before = <<>>
  /\ again = FALSE
  /\ pc = "idle"
  /\ file = NoFile
  /\ disk = <<>>
  /\ report = <<>>
  /\ runs = 0

\* isOnlyChinese(str)
IsOnlyChinese ==
  /\ output' = isOnlyChinese(input)
  /\ last' = "isOnlyChinese"
  /\ UNCHANGED <<i18nMap, unmatchedTexts, skipUnmatched, matchPath, zhData,
                 input, before, again, pc, file, disk, report, runs>>

\* cleanString(str)
CleanString ==
  /\ output' = cleanString(input)
  /\ last' = "cleanString"
  /\ UNCHANGED <<i18nMap, unmatchedTexts, skipUnmatched, matchPath, zhData,
                 input, before, again, pc, file, disk, report, runs>>

NextText ==
  \/ IsOnlyChinese
  \/ CleanString

SpecText == InitText /\ [][NextText]_vars

-----------------------------------------------------------------------------
(* utils.js: flattenI18nObject on nested dictionary objects.               *)

\* Bounds
MaxProps == 2

\* The names of the properties: at the top a plain name, a name that holds
\* a dot and the empty name; inside an object two plain names
TopNames == {<<"a">>, <<"a", ".", "b">>, <<>>}
InnerNames == {<<"a">>, <<"b">>}
FlatTexts == {<<"Zh1">>, <<"Zh1", "FwColon">>, <<"Zh1", ":">>, <<"Zh2">>}

\* A property whose value is a string, or a number
ValueProps(names) ==
  [key : names, kind : {"string"}, text : FlatTexts, children : {<<>>}]
  \cup [key : names, kind : {"number"}, text : {<<>>}, children : {<<>>}]

\* The objects with up to MaxProps properties of distinct names
ObjectsOf(props) ==
  UNION {{q \in [1..n -> props] :
            \A i, j \in 1..n : i # j => q[i].key # q[j].key} : n \in 0..MaxProps}

ObjectProps ==
  [key : TopNames, kind : {"object"}, text : {<<>>},
   children : ObjectsOf(ValueProps(InnerNames)) \ {<<>>}]

FlatDicts == ObjectsOf(ValueProps(TopNames) \cup ObjectProps)

InitFlatten ==
  /\ input \in FlatDicts
  /\ output = <<>>
  /\ last = "init"
  /\ i18nMap = <<>>
  /\ unmatchedTexts = <<>>
  /\ skipUnmatched = FALSE
  /\ matchPath = NoPath
  /\ zhData = [exists |-> FALSE, readable |-> FALSE, data |-> <<>>]
  /\ before = <<>>
  /\ again = FALSE
  /\ pc = "idle"
  /\ file = NoFile
  /\ disk = <<>>
  /\ report = <<>>
  /\ runs = 0

\* flattenI18nObject(obj) with the default prefix and result
FlattenI18nObject ==
  /\ last = "init"
  /\ output' = flattenI18nObject(input, <<>>, <<>>)
  /\ last' = "flatten"
  /\ UNCHANGED <<i18nMap, unmatchedTexts, skipUnmatched, matchPath, zhData,
                 input, before, again, pc, file, disk, report, runs>>

NextFlatten == FlattenI18nObject

SpecFlatten == InitFlatten /\ [][NextFlatten]_vars

-----------------------------------------------------------------------------
(* Properties                                                              *)

\* The candidate keys the index holds for a text, in first-seen order
Candidates(text) ==
  IF MapIndex(i18nMap, text) = 0 THEN <<>>
  ELSE i18nMap[MapIndex(i18nMap, text)].keys

CommonPrefix == kCommon \o <<".">>

\* The scope rule of the specification, for a set scope prefix
InScope(key) ==
  StartsWith(key, CommonPrefix) \/ StartsWith(key, matchPath \o <<".">>)

\* The first index of a sequence of keys that satisfies a prefix, 0 if none
FirstWith(keys, prefix) ==
  IF \E i \in 1..Len(keys) : StartsWith(keys[i], prefix)
  THEN CHOOSE i \in 1..Len(keys) :
         /\ StartsWith(keys[i], prefix)
         /\ \A j \in 1..(i - 1) : ~StartsWith(keys[j], prefix)
  ELSE 0

\* C1: with two or more candidate keys for the text, the call returns the
\* first candidate under "common." if there is one, whatever the scope prefix;
\* otherwise the first candidate under the scope prefix if a prefix is set and
\* one exists; otherwise, with no scope prefix, the first-seen candidate.
C1_Priority ==
  (last = "getKey" /\ Len(Candidates(input)) >= 2) =>
    LET ks == Candidates(input)
        c == FirstWith(ks, CommonPrefix)
        m == IF matchPath = NoPath THEN 0
             ELSE FirstWith(ks, matchPath \o <<".">>)
    IN IF c > 0 THEN ~output.isNull /\ output.key = ks[c]
       ELSE IF m > 0 THEN ~output.isNull /\ output.key = ks[m]
       ELSE matchPath = NoPath => (~output.isNull /\ output.key = ks[1])

\* C1 witness: a scoped candidate stands before a common one, the scope is
\* set, and the call returned the common one.
C1_Witness ==
  /\ last = "getKey"
  /\ matchPath = kPda
  /\ Len(Candidates(input)) >= 2
  /\ StartsWith(Candidates(input)[1], kPda \o <<".">>)
  /\ FirstWith(Candidates(input), CommonPrefix) > 1
  /\ output.key = Candidates(input)[FirstWith(Candidates(input), CommonPrefix)]

\* C2: with a scope prefix set, a returned dictionary key is under "common."
\* or under the prefix; a text all of whose candidates fail the rule is
\* recorded as unmatched and gets the not-found fallback; a text with exactly
\* one candidate passing the rule among several resolves to that candidate.
C2_ScopeRule ==
  (last = "getKey" /\ matchPath # NoPath) =>
    LET ks == Candidates(input)
        ok == {i \in 1..Len(ks) : InScope(ks[i])}
    IN /\ (~output.isNull /\ \E i \in 1..Len(ks) : ks[i] = output.key)
            => InScope(output.key)
       /\ (Len(ks) >= 1 /\ ok = {}) =>
            /\ \E i \in 1..Len(unmatchedTexts) : unmatchedTexts[i] = input
            /\ output = [isNull |-> skipUnmatched,
                         key |-> IF skipUnmatched THEN <<>> ELSE input]
       /\ (Len(ks) >= 2 /\ Cardinality(ok) = 1) =>
            (~output.isNull /\ output.key = ks[CHOOSE i \in ok : TRUE])

\* C2 witness: the only candidates are out of scope and the text was recorded.
C2_Witness ==
  /\ last = "getKey"
  /\ matchPath # NoPath
  /\ Len(Candidates(input)) >= 2
  /\ \A i \in 1..Len(Candidates(input)) : ~InScope(Candidates(input)[i])
  /\ unmatchedTexts # before

-----------------------------------------------------------------------------
(* Properties of the rewriters                                             *)

EndsInColon(t) == Len(t) > 0 /\ t[Len(t)] \in {":", "FwColon"}

\* The text handed to resolution for a text: its one trailing colon removed
LookupOf(t) == IF EndsInColon(t) THEN SubSeq(t, 1, Len(t) - 1) ELSE t

\* What resolution answers for a text, the unmatched set left aside
Resolve(t) == getKeyForChinese(LookupOf(t), <<>>)

Str_param1 == <<"{", "p", "a", "r", "a", "m", "1", "}">>

\* The convertible texts the rewriter finds in a piece of markup
KeyTexts(piece) ==
  LET t == piece.text
  IN CASE piece.kind \in {"text", "mixed", "attr", "bound", "interp"} -> {t}
       [] piece.kind \in {"tplAttr", "tplInterp"} -> {Str_param1 \o t}
       [] piece.kind = "braces" -> {t \o <<"}", "}">> \o t}
       [] piece.kind = "gt" ->
            {t, <<"0", "\"", " ">> \o Str_title \o <<"=", "\"">> \o t
                \o <<"\"", ">", "x">>}
       [] piece.kind \in {"comment", "commented", "tplInterpIdent",
                          "tplAttrIdent"} -> {}

HoldsAbsent(piece) == \E t \in KeyTexts(piece) : Resolve(t).isNull

Occurrences(set, x) == Cardinality({j \in 1..Len(set) : set[j] = x})

\* The markups made of one choice for each piece, in order
RECURSIVE Joins(_)
Joins(choices) ==
  IF choices = <<>> THEN {<<>>}
  ELSE {h \o t : h \in Head(choices), t \in Joins(Tail(choices))}

\* What a piece can come out as: itself, or rewritten as if it stood alone
\* (a pattern that starts in one attribute can end in the next and keep a
\* later pass from seeing it)
AsIsOrAlone(piece) ==
  {Render(piece), convertTemplate(Render(piece), <<>>).text}

\* C4: with skipUnmatched set, every piece of markup that holds a convertible
\* text resolving to absent comes out byte-identical, and each such text is
\* in the unmatched set exactly once however often it occurs
C4_SkipLaw ==
  (last = "template" /\ ~again /\ skipUnmatched) =>
    /\ output \in Joins([i \in 1..Len(file.parts) |->
                            IF HoldsAbsent(file.parts[i])
                            THEN {Render(file.parts[i])}
                            ELSE AsIsOrAlone(file.parts[i])])
    /\ \A i \in 1..Len(file.parts) : \A t \in KeyTexts(file.parts[i]) :
         Resolve(t).isNull => Occurrences(unmatchedTexts, LookupOf(t)) = 1

\* The translation call of the markup and of the code, and the colon literal
TCallText(key, params) ==
  <<"$", "t", "(", "'">> \o key \o <<"'">>
  \o (IF params THEN <<",", " ", "{", " ", "p", "a", "r", "a", "m", "1", ":",
                       " ", "w", " ", "}">> ELSE <<>>)
  \o <<")">>

I18nCallText(key, params) ==
  <<"$", "i", "1", "8", "n", ".", "t", "(", "\"">> \o key \o <<"\"">>
  \o (IF params THEN <<",", " ", "{", "\n", " ", " ", " ", " ", "p", "a", "r",
                       "a", "m", "1", ":", " ", "u", "\n", "}">> ELSE <<>>)
  \o <<")">>

PlusColon(quote, t) == <<" ", "+", " ", quote, t[Len(t)], quote>>

ColonPieceKinds == {"text", "mixed", "attr", "bound", "tplAttr", "interp",
                    "tplInterp"}

\* The markup the punctuation law asks for, for a piece whose text ends in a colon
ColonPiece(piece) ==
  LET t == piece.text
      plain == TCallText(Resolve(t).key, FALSE)
      param == TCallText(Resolve(Str_param1 \o t).key, TRUE)
      interp == <<"{", "{", " ">> \o plain \o PlusColon("\"", t) \o <<" ", "}", "}">>
      attr(call) == <<"<", "a", " ", ":">> \o Str_title \o <<"=", "\"">> \o call
                    \o PlusColon("'", t) \o <<"\"", "/", ">">>
  IN CASE piece.kind \in {"text", "interp"} -> Str_p \o interp \o Str_endp
       [] piece.kind = "mixed" ->
            Str_p \o interp \o <<"{", "{", " ", "x", " ", "}", "}">> \o Str_endp
       [] piece.kind \in {"attr", "bound"} -> attr(plain)
       [] piece.kind = "tplAttr" -> attr(param)
       [] piece.kind = "tplInterp" ->
            Str_p \o <<"{", "{", " ">> \o param \o PlusColon("'", t)
            \o <<" ", "}", "}">> \o Str_endp

ColonPartKinds == {"str", "tpl0", "tplEnd", "chainEnd"}

\* The expression the punctuation law asks for, for a part whose text ends in a colon
ColonPart(part) ==
  LET t == part.text
  IN IF part.kind \in {"str", "tpl0"}
     THEN I18nCallText(Resolve(t).key, FALSE) \o PlusColon("\"", t)
     ELSE I18nCallText(Resolve(Str_param1 \o t).key, TRUE) \o PlusColon("\"", t)

ParamExample == [kind |-> "tplStart", text |-> <<"Zh1", "FwColon">>]

\* C6: for the template literal made of a text the dictionary maps to
\* user.current, a colon and one hole, the conversion is the call with key
\* user.current and the parameter object {param1: <the hole's expression>},
\* concatenated with the literal colon
C6_ParameterExtraction ==
  (/\ last = "script" /\ ~again
   /\ file.parses
   /\ file.parts = <<ParamExample>>
   /\ matchPath = NoPath
   /\ MapIndex(i18nMap, <<"Zh1">>) > 0) =>
    output.code =
      PrintBody(<<binaryExpression(
                    <<"+">>,
                    I18nCall(kUserCurrent,
                             <<objectExpression(
                                 <<property(identifier(<<"p", "a", "r", "a", "m",
                                                         "1">>), Id_u)>>)>>),
                    literal(<<"FwColon">>))>>)

\* C7: convertTemplate run on its own output returns it unchanged
C7_TemplateIdempotent ==
  (last = "template" /\ again) => output = input

\* C8: convertScript run on its own output returns it unchanged
C8_ScriptIdempotent ==
  (last = "script" /\ again) => output.code = input.code

\* Whether a string literal or a static segment of a template literal under
\* n holds a convertible text
RECURSIVE HasText(_)
HasText(n) ==
  \/ IsStringNode(n) /\ isOnlyChinese(n.text)
  \/ \E i \in 1..Len(n.quasis) : isOnlyChinese(n.quasis[i].cooked)
  \/ \E i \in 1..Len(n.kids) : HasText(n.kids[i])

\* C9: a code region none of whose literals holds a convertible text is
\* returned byte-identical
C9_RoundTrip ==
  (/\ last = "script" /\ ~again
   /\ \A i \in 1..Len(input.body) : ~HasText(input.body[i])) =>
    output.code = input.code

\* Whether the code region of the file makes convertScript fail: it does not
\* parse, or a template literal in it makes a builder throw in a rewrite
ScriptFails ==
  \/ ~file.parses
  \/ ~skipUnmatched /\ \E i \in 1..Len(file.script) :
                          file.script[i].kind = "tplNested"

\* The file as it is written when the code region fails: the converted
\* markup between its tags, the original code between its tags, the rest
KeptAndComposed ==
  (IF file.parts # <<>>
   THEN Str_templateOpen \o convertTemplate(TemplateContent(file), <<>>).text
        \o Str_templateClose
   ELSE <<>>)
  \o Str_scriptOpen \o ScriptContent(file).code \o Str_scriptClose
  \o Str_style

\* C10: when parsing the code region or a rewriting step raises,
\* convertScript returns the original code and does not raise to its caller:
\* the run never takes the catch of convertVueFile, the converted markup is
\* kept, and the file is composed of it and of the original code and written
C10_FailSoft ==
  (/\ file.exists /\ file.isVue /\ file.sfcOk
   /\ file.script # <<>>
   /\ pc \in {"write", "save", "done", "failed"}
   /\ ScriptFails) =>
    /\ pc # "failed"
    /\ output.script = ScriptContent(file).code
    /\ output.template = convertTemplate(TemplateContent(file), <<>>).text
    /\ ~file.scriptFirst => output.result = KeptAndComposed
    /\ pc \in {"save", "done"} => disk = output.result
    /\ pc = "done" => runs = 1

\* A file whose markup was converted and whose code made a builder throw has
\* been written
C10_Witness ==
  /\ pc = "done"
  /\ file.parses
  /\ ~skipUnmatched
  /\ file.parts # <<>>
  /\ \E i \in 1..Len(file.script) : file.script[i].kind = "tplNested"
  /\ \E i \in 1..Len(file.script) : file.script[i].kind = "str"
  /\ output.template # TemplateContent(file)
  /\ disk # input
  /\ disk = KeptAndComposed

-----------------------------------------------------------------------------
(* Properties of the module state over several runs                        *)

\* Every text of the first set is in the second
Within(a, b) == \A i \in 1..Len(a) : \E j \in 1..Len(b) : b[j] = a[i]

\* The texts the current file hands to resolution
TextsOf(f) ==
  {LookupOf(f.parts[i].text) : i \in 1..Len(f.parts)}
  \cup {LookupOf(f.script[i].text) : i \in 1..Len(f.script)}

\* C11: in every run the unmatched set is empty when the rewriters start
\* (before the run's first resolution call), up to the report it holds only
\* texts of the run's own file, and no step of a run that makes resolution
\* calls removes an element from it
C11_ResetAndGrow ==
  /\ [](pc = "template" => unmatchedTexts = <<>>)
  /\ [](pc \in {"script", "write", "save"} =>
          \A i \in 1..Len(unmatchedTexts) : unmatchedTexts[i] \in TextsOf(file))
  /\ [][(pc \in {"template", "script", "write", "save"}) =>
          Within(unmatchedTexts, unmatchedTexts')]_vars

\* A second run is about to report one text after the first run reported
\* two: the texts of the first run are gone
C11_Witness ==
  /\ pc = "save"
  /\ runs = 1
  /\ Len(report) = 1
  /\ report[1].count = 2
  /\ Len(unmatchedTexts) = 1

\* C12: while a run converts, the index is the one built from the run's own
\* dictionary: empty when no zh.js is found or it cannot be loaded, and then
\* every text of the file has been resolved as not found by the time the
\* file is written
C12_FreshIndex ==
  (pc \in {"template", "script", "write", "save"}) =>
    /\ i18nMap = (IF zhData.exists /\ zhData.readable THEN LoadedMap(zhData)
                  ELSE <<>>)
    /\ (pc \in {"write", "save"} /\ ~(zhData.exists /\ zhData.readable)) =>
         \A t \in TextsOf(file) :
           \E i \in 1..Len(unmatchedTexts) : unmatchedTexts[i] = t

-----------------------------------------------------------------------------
(* Properties of the string helpers                                        *)

\* C13: isOnlyChinese is false for an empty or whitespace-only string, false
\* for a string of digits only, and otherwise true exactly when the trimmed
\* string holds a Chinese character, whatever letters or digits stand
\* beside it
C13_IsConvertible ==
  (last = "isOnlyChinese") =>
    IF \A i \in 1..Len(input) : input[i] \in Whitespace THEN output = FALSE
    ELSE IF \A i \in 1..Len(input) : input[i] \in Digits THEN output = FALSE
    ELSE output = (\E i \in 1..Len(input) : input[i] \in ChineseChars)

\* A Chinese character between a letter and a digit was found convertible
C13_Witness ==
  /\ last = "isOnlyChinese"
  /\ input = <<"a", "Zh1", "1">>
  /\ output = TRUE

\* A string without its leading and trailing space characters
RECURSIVE StripSpaces(_)
StripSpaces(s) ==
  IF s = <<>> THEN <<>>
  ELSE IF Head(s) = " " THEN StripSpaces(Tail(s))
  ELSE IF s[Len(s)] = " " THEN StripSpaces(SubSeq(s, 1, Len(s) - 1))
  ELSE s

\* C14: cleanString removes the leading and trailing space characters and
\* nothing else: a leading or trailing newline, tab or carriage return and
\* all interior whitespace are in the result
C14_TrimSpacesOnly ==
  (last = "cleanString") => output = StripSpaces(input)

-----------------------------------------------------------------------------
(* Properties of the code rewriter                                         *)

ConsoleKinds == {"console", "consoleChain", "consoleTpl", "consoleNested"}

\* C15: a statement that is a console.* call comes out as it went in,
\* whether the literal is the argument, part of a + chain or of a template
\* literal, or nested in another call; and a region of such statements makes
\* no resolution call: the unmatched set stays as it was
C15_ConsoleSkipped ==
  (last = "script" /\ ~again /\ file.parses) =>
    /\ \A i \in 1..Len(file.parts) :
         file.parts[i].kind \in ConsoleKinds =>
           /\ output.body[i] = input.body[i]
           /\ PrintNode(output.body[i]) = PrintNode(input.body[i])
    /\ (\A i \in 1..Len(file.parts) : file.parts[i].kind \in ConsoleKinds) =>
         /\ output.code = input.code
         /\ unmatchedTexts = before

\* A literal nested in a console call was kept while the same literal in
\* the next statement was converted
C15_Witness ==
  /\ last = "script" /\ ~again /\ ~skipUnmatched
  /\ file.parts = <<[kind |-> "consoleNested", text |-> <<"Zh1">>],
                    [kind |-> "str", text |-> <<"Zh1">>]>>
  /\ output.body[1] = input.body[1]
  /\ output.body[2] # input.body[2]

\* C16: a text with interpolation whose body without the embedded
\* expressions holds no convertible text is left as it is by convertTemplate
\* (interpolation and bound attribute) and by convertScript (template
\* literal), also where the source of the embedded expression holds Chinese
\* characters
C16_NoBodyUntouched ==
  /\ (/\ last = "template" /\ ~again
      /\ \A i \in 1..Len(file.parts) :
           file.parts[i].kind \in {"tplInterpIdent", "tplAttrIdent"}) =>
       (output = input /\ unmatchedTexts = before)
  /\ (last = "script" /\ ~again /\ file.parses) =>
       \A i \in 1..Len(file.parts) :
         file.parts[i].kind = "tplIdent" => output.body[i] = input.body[i]

Str_param2 == <<"{", "p", "a", "r", "a", "m", "2", "}">>

\* The statement is one translation call, alone or followed by + colon
IsWholeCall(n) ==
  \/ IsI18nCall(n)
  \/ /\ n.type = "BinaryExpression"
     /\ IsI18nCall(n.kids[1])
     /\ n.kids[2].type = "StringLiteral"
WholeCall(n) == IF IsI18nCall(n) THEN n ELSE n.kids[1]

\* A part with holes: the body with the placeholders in the order of the
\* source, and the hole expressions in that order
HoleKinds == {"tplStart", "tplEnd", "chainEnd", "chainFn", "tplHole", "tpl2",
              "chain2", "tplIdent"}
HolesOf(part) ==
  LET t == part.text
      call == callExpression(Id_f, <<stringLiteral(<<"Zh1">>, "'")>>)
  IN CASE part.kind = "tplStart" -> [body |-> t \o Str_param1, holes |-> <<Id_u>>]
       [] part.kind = "tplEnd" -> [body |-> Str_param1 \o t, holes |-> <<Id_u>>]
       [] part.kind = "chainEnd" -> [body |-> Str_param1 \o t, holes |-> <<Id_u>>]
       [] part.kind = "chainFn" -> [body |-> t \o Str_param1, holes |-> <<call>>]
       [] part.kind = "tplHole" -> [body |-> t \o Str_param1, holes |-> <<call>>]
       [] part.kind = "tplIdent" ->
            [body |-> Str_param1 \o t, holes |-> <<identifier(<<"Zh3">>)>>]
       [] part.kind \in {"tpl2", "chain2"} ->
            [body |-> Str_param1 \o t \o Str_param2, holes |-> <<Id_u, Id_f>>]

\* A hole expression after the traversal of the emitted call has reached it:
\* visitTemplateLiteral traverses the call it put in place, so a literal
\* inside a hole is converted where it stands
Visited(hole) ==
  IF hole.type = "CallExpression" /\ ~Resolve(<<"Zh1">>).isNull
  THEN callExpression(Id_f, <<I18nCall(Resolve(<<"Zh1">>).key, <<>>)>>)
  ELSE hole

\* C17: a template literal or + chain with n holes that was rewritten: the
\* text handed to resolution is the body with {param1}..{paramn} in the
\* order of the source (the emitted key is what resolution returns for it,
\* and the body is recorded where the dictionary does not know it), and the
\* parameter object has exactly n entries, param_i bound to the i-th hole
\* expression (as it is, or with the literal inside it converted in place)
C17_ParamsInOrder ==
  (last = "script" /\ ~again /\ file.parses) =>
    \A i \in 1..Len(file.parts) :
      (/\ file.parts[i].kind \in HoleKinds
       /\ IsWholeCall(output.body[i])) =>
        LET c == HolesOf(file.parts[i])
            call == WholeCall(output.body[i])
        IN /\ Len(call.kids) = 3
           /\ call.kids[2].text = Resolve(c.body).key
           /\ MapIndex(i18nMap, LookupOf(c.body)) = 0 =>
                \E j \in 1..Len(unmatchedTexts) :
                  unmatchedTexts[j] = LookupOf(c.body)
           /\ call.kids[3].type = "ObjectExpression"
           /\ Len(call.kids[3].kids) = Len(c.holes)
           /\ \A j \in 1..Len(c.holes) :
                call.kids[3].kids[j] \in
                  {Reparse(property(identifier(<<"p", "a", "r", "a", "m">>
                                               \o NatToStr(j)), h)) :
                     h \in {c.holes[j], Visited(c.holes[j])}}

\* A chain and a template literal with two holes each were rewritten
C17_Witness ==
  /\ last = "script" /\ ~again /\ ~skipUnmatched
  /\ file.parts = <<[kind |-> "chain2", text |-> <<"Zh2", ":">>],
                    [kind |-> "tpl2", text |-> <<"Zh2">>]>>
  /\ IsWholeCall(output.body[1])
  /\ IsWholeCall(output.body[2])
  /\ Len(WholeCall(output.body[1]).kids[3].kids) = 2

ChainKinds == {"chainEnd", "chainFn", "chain2"}

\* The string literals among the operands of a + chain, from left to right
RECURSIVE LiteralParts(_)
LiteralParts(n) ==
  IF n.type = "BinaryExpression" /\ n.text = <<"+">>
  THEN LiteralParts(n.kids[1]) \o LiteralParts(n.kids[2])
  ELSE IF n.type = "StringLiteral" THEN <<n>>
  ELSE <<>>

\* C18: a + chain with a string literal and a convertible composed body is
\* after convertScript either one call for the whole chain (with the colon
\* literal where the body ended in one), or still the chain with every one of
\* its literal parts unchanged; it is the call wherever resolution returned
\* a key and the conversion did not fail. No literal part is wrapped alone
C18_ChainAsWhole ==
  (last = "script" /\ ~again /\ file.parses) =>
    \A i \in 1..Len(file.parts) :
      file.parts[i].kind \in ChainKinds =>
        LET key == Resolve(HolesOf(file.parts[i]).body)
            out == output.body[i]
            whole == /\ IsWholeCall(out)
                     /\ ~key.isNull
                     /\ WholeCall(out).kids[2].text = key.key
            kept == /\ out.type = "BinaryExpression"
                    /\ ~IsWholeCall(out)
                    /\ LiteralParts(out) = LiteralParts(input.body[i])
        IN /\ whole \/ kept
           /\ (/\ ~key.isNull
               /\ \A j \in 1..Len(file.parts) : file.parts[j].kind # "tplNested")
                => whole

\* Resolution returned absent for a chain whose literal the dictionary knows:
\* the chain was kept while the same literal on its own was converted
C18_Witness ==
  /\ last = "script" /\ ~again /\ skipUnmatched
  /\ file.parts = <<[kind |-> "chainEnd", text |-> <<"Zh1">>],
                    [kind |-> "str", text |-> <<"Zh1">>]>>
  /\ output.body[1] = input.body[1]
  /\ output.body[2] # input.body[2]

I18nArgKinds == {"i18n", "i18nChain", "i18nTpl", "thisT", "thisI18n"}

\* C19: a string literal, template literal or + chain that is the argument
\* of $t, this.$t, i18n.t, $i18n.t or this.$i18n.t comes out of convertScript
\* as it went in: the statement is unchanged and nothing is resolved for it
C19_TranslatedKept ==
  (last = "script" /\ ~again /\ file.parses) =>
    /\ \A i \in 1..Len(file.parts) :
         file.parts[i].kind \in I18nArgKinds => output.body[i] = input.body[i]
    /\ (\A i \in 1..Len(file.parts) : file.parts[i].kind \in I18nArgKinds) =>
         (output.code = input.code /\ unmatchedTexts = before)

-----------------------------------------------------------------------------
(* Properties of the comment protection                                    *)

Str_commentOpen == <<"<", "!", "-", "-">>

\* The comment of a piece
CommentOf(piece) ==
  IF piece.kind = "comment" THEN Render(piece)
  ELSE <<"<", "!", "-", "-", " ", "Zh2", " ", "-", "-", ">">>

\* C20: every comment of the markup is in convertTemplate's output as it was
\* written; no text handed to key resolution holds a comment or the
\* placeholder that stands for one; and a text next to a comment is
\* converted as that text alone, the comment following the converted text
C20_CommentsProtected ==
  (last = "template" /\ ~again) =>
    /\ \A i \in 1..Len(file.parts) :
         file.parts[i].kind \in {"comment", "commented"} =>
           Includes(output, CommentOf(file.parts[i]))
    /\ \A j \in 1..Len(unmatchedTexts) :
         /\ ~Includes(unmatchedTexts[j], CommentPlaceholder)
         /\ ~Includes(unmatchedTexts[j], Str_commentOpen)
    /\ \A i \in 1..Len(file.parts) :
         (file.parts[i].kind = "commented" /\ Len(file.parts) = 1) =>
           \E alone \in AsIsOrAlone([kind |-> "text",
                                     text |-> file.parts[i].text]) :
             output = SubSeq(alone, 1, Len(alone) - Len(Str_endp))
                      \o CommentOf(file.parts[i]) \o Str_endp

-----------------------------------------------------------------------------
(* Properties of the composition of the file and of the order of a run     *)

\* C21: for a file with a markup region and a code region, in either order,
\* parseVueFile returns the source with the markup region replaced by what
\* convertTemplate returns and the code region by what convertScript
\* returns, and everything outside the two regions once, as it was and in
\* its place
C21_Composed ==
  (/\ file.exists /\ file.isVue /\ file.sfcOk
   /\ file.parts # <<>> /\ file.script # <<>>
   /\ pc \in {"write", "save", "done"}) =>
    output.result =
      Compose(file, convertTemplate(TemplateContent(file), <<>>).text,
              convertScript(ScriptContent(file), <<>>).code)

-----------------------------------------------------------------------------
(* Properties of the dictionary index                                      *)

\* The string leaves of a dictionary of two levels in the order flattening
\* meets them, each with its full dot path and its text
RECURSIVE LeavesOf(_, _, _)
LeavesOf(obj, path, top) ==
  IF obj = <<>> THEN <<>>
  ELSE LET p == Head(obj)
           full == IF top THEN p.key ELSE path \o <<".">> \o p.key
           here == IF p.kind = "object" THEN LeavesOf(p.children, full, FALSE)
                   ELSE IF p.kind = "string"
                   THEN <<[key |-> full, text |-> p.text]>>
                   ELSE <<>>
       IN here \o LeavesOf(Tail(obj), path, top)

\* The keys of the leaves whose text without its trailing colon is t
RECURSIVE KeysFor(_, _)
KeysFor(leaves, t) ==
  IF leaves = <<>> THEN <<>>
  ELSE (IF LookupOf(Head(leaves).text) = t THEN <<Head(leaves).key>> ELSE <<>>)
       \o KeysFor(Tail(leaves), t)

\* C22: flattenI18nObject puts the full dot path of every string leaf into
\* the group of the leaf's text without one trailing colon; texts that differ
\* by that colon only share a group; the keys of a group are in the order
\* the leaves were met, and no key of a leaf is lost or overwritten
C22_Groups ==
  (last = "flatten") =>
    LET leaves == LeavesOf(input, <<>>, TRUE)
    IN /\ \A i \in 1..Len(leaves) :
            \E j \in 1..Len(output) : output[j].text = LookupOf(leaves[i].text)
       /\ \A i, j \in 1..Len(output) :
            i # j => output[i].text # output[j].text
       /\ \A j \in 1..Len(output) :
            output[j].keys = KeysFor(leaves, output[j].text)

\* C23: in the index flattenI18nObject builds, every text has at least one
\* key and no key stands twice in the keys of a text
C23_NoDuplicateKeys ==
  (last = "flatten") =>
    \A j \in 1..Len(output) :
      /\ Len(output[j].keys) >= 1
      /\ \A a, b \in 1..Len(output[j].keys) :
           a # b => output[j].keys[a] # output[j].keys[b]

\* The order of the calls of one run
StepOrder ==
  {<<"idle", "reset">>, <<"idle", "done">>, <<"reset", "options">>,
   <<"options", "load">>, <<"load", "template">>, <<"template", "script">>,
   <<"template", "failed">>, <<"script", "write">>, <<"write", "save">>,
   <<"save", "done">>, <<"failed", "done">>, <<"done", "idle">>}

\* C24: in a run that reaches the rewriters the calls come in the order
\* reset of the unmatched set, options, load of the index, markup rewrite,
\* code rewrite, report.  The index is written by the load alone, so it is
\* complete before a rewriter resolves a text and is not written after;
\* texts are resolved (the unmatched set grows, a region is converted) by
\* the two rewriters alone; and the report is written only after both
\* rewriters have returned and the file is composed
C24_Order ==
  /\ [][pc' # pc => <<pc, pc'>> \in StepOrder]_vars
  /\ [][i18nMap' # i18nMap => pc = "load"]_vars
  /\ [][(unmatchedTexts' # unmatchedTexts /\ unmatchedTexts' # <<>>)
          => pc \in {"template", "script"}]_vars
  /\ [][(output' # output /\ output' # NoResult)
          => pc \in {"template", "script"}]_vars
  /\ [][(report' # report \/ runs' # runs) =>
          /\ pc = "save"
          /\ output.template = convertTemplate(TemplateContent(file), <<>>).text
          /\ output.script = convertScript(ScriptContent(file), <<>>).code
          /\ disk = output.result]_vars
  /\ [](pc \in {"options", "load"} => unmatchedTexts = <<>>)

\* The second run of a process has converted both regions of its file and
\* has written its report after the report of the first
C24_Witness ==
  /\ pc = "done" /\ runs = 2 /\ Len(report) = 2
  /\ file.parts # <<>> /\ file.script # <<>>
  /\ output.template # TemplateContent(file)
  /\ output.script # ScriptContent(file).code
  /\ zhData.exists /\ zhData.readable
  /\ i18nMap = LoadedMap(zhData)

=============================================================================
